---- MODULE Spec2Model ----
(***************************************************************************)
(* Model of media-sorter (src/main.go): timestamp resolution, canonical    *)
(* naming, collision handling, metadata enrichment and mtime sync.         *)
(*                                                                         *)
(* Text the program reads or builds (file names, tool output, typed lines, *)
(* configuration values, argument values) is a sequence of Unicode code    *)
(* points, as []rune(s) of a valid UTF-8 Go string; Runes("a.jpg") writes  *)
(* one from its ASCII spelling.  Names the program only passes around (tag *)
(* names, labels, steps) are TLA+ strings.  An instant is [s |-> seconds   *)
(* since 1970-01-01T00:00:00Z, ns |-> nanoseconds 0..999999999]; a zone    *)
(* (a time.Location) is a list of periods, each with its offset in minutes *)
(* east of UTC.                                                            *)
(***************************************************************************)
EXTENDS Integers, Sequences, FiniteSets, TLC

(***************************************************************************)
(* Strings (Go: strings, unicode, path/filepath, fmt)                      *)
(***************************************************************************)
\* the ASCII characters a TLA+ string can spell, in code order: U+0020 to
\* U+005F, and U+0061 to U+007E
PrintableLow == " !\"#$%&'()*+,-./0123456789:;<=>?@ABCDEFGHIJKLMNOPQRSTUVWXYZ[\\]^_"
PrintableHigh == "abcdefghijklmnopqrstuvwxyz{|}~"

\* the code point of each of them, and of the four control characters
RuneTable ==
    [c \in {SubSeq(PrintableLow, i, i) : i \in 1..64}
            \cup {SubSeq(PrintableHigh, i, i) : i \in 1..30}
            \cup {"\t", "\n", "\f", "\r"} |->
        IF c = "\t" THEN 9
        ELSE IF c = "\n" THEN 10
        ELSE IF c = "\f" THEN 12
        ELSE IF c = "\r" THEN 13
        ELSE IF \E i \in 1..64 : SubSeq(PrintableLow, i, i) = c
        THEN 31 + CHOOSE i \in 1..64 : SubSeq(PrintableLow, i, i) = c
        ELSE 96 + CHOOSE i \in 1..30 : SubSeq(PrintableHigh, i, i) = c]

\* []rune(s) for an ASCII literal s
Runes(s) == [i \in 1..Len(s) |-> RuneTable[SubSeq(s, i, i)]]

\* the code point of a one-character literal
Rune(c) == RuneTable[c]

\* s[i], or -1 past the end of s
Char(s, i) == IF i >= 1 /\ i <= Len(s) THEN s[i] ELSE -1

\* '0' <= c <= '9'
IsDigit(c) == c >= 48 /\ c <= 57

DigitVal(c) == c - 48

DigitChar(n) == 48 + n

\* is every character of s[from..to] a decimal digit
AllDigits(s, from, to) == \A i \in from..to : IsDigit(Char(s, i))

RECURSIVE Atoi(_, _, _)
\* value of the decimal digits s[from..to]
Atoi(s, from, to) ==
    IF to < from THEN 0
    ELSE 10 * Atoi(s, from, to - 1) + DigitVal(Char(s, to))

\* fmt %02d, %03d, %04d of a non-negative number
Pad2(n) == <<DigitChar((n \div 10) % 10), DigitChar(n % 10)>>
Pad3(n) == <<DigitChar((n \div 100) % 10)>> \o Pad2(n % 100)
Pad4(n) == <<DigitChar((n \div 1000) % 10)>> \o Pad3(n % 1000)

\* strings.Contains(s, c) for a one-character c
ContainsChar(s, c) == \E i \in 1..Len(s) : s[i] = c

\* strings.HasSuffix / strings.HasPrefix
HasSuffix(s, suf) ==
    Len(s) >= Len(suf) /\ SubSeq(s, Len(s) - Len(suf) + 1, Len(s)) = suf
HasPrefix(s, pre) == Len(s) >= Len(pre) /\ SubSeq(s, 1, Len(pre)) = pre

\* the lower-case mappings of the Unicode character database (unicode.
\* CaseRanges): <<lo, hi, stride, delta>> maps lo, lo + stride, ..., hi to
\* itself + delta; U+0130 goes to i and U+212A (Kelvin sign) to k
CaseRanges ==
    << <<65, 90, 1, 32>>, <<192, 214, 1, 32>>, <<216, 222, 1, 32>>,
      <<256, 302, 2, 1>>, <<304, 304, 1, -199>>, <<306, 310, 2, 1>>,
      <<313, 327, 2, 1>>, <<330, 374, 2, 1>>, <<376, 376, 1, -121>>,
      <<377, 381, 2, 1>>, <<385, 385, 1, 210>>, <<386, 388, 2, 1>>,
      <<390, 390, 1, 206>>, <<391, 391, 1, 1>>, <<393, 394, 1, 205>>,
      <<395, 395, 1, 1>>, <<398, 398, 1, 79>>, <<399, 399, 1, 202>>,
      <<400, 400, 1, 203>>, <<401, 401, 1, 1>>, <<403, 403, 1, 205>>,
      <<404, 404, 1, 207>>, <<406, 406, 1, 211>>, <<407, 407, 1, 209>>,
      <<408, 408, 1, 1>>, <<412, 412, 1, 211>>, <<413, 413, 1, 213>>,
      <<415, 415, 1, 214>>, <<416, 420, 2, 1>>, <<422, 422, 1, 218>>,
      <<423, 423, 1, 1>>, <<425, 425, 1, 218>>, <<428, 428, 1, 1>>,
      <<430, 430, 1, 218>>, <<431, 431, 1, 1>>, <<433, 434, 1, 217>>,
      <<435, 437, 2, 1>>, <<439, 439, 1, 219>>, <<440, 440, 1, 1>>,
      <<444, 444, 1, 1>>, <<452, 452, 1, 2>>, <<453, 453, 1, 1>>,
      <<455, 455, 1, 2>>, <<456, 456, 1, 1>>, <<458, 458, 1, 2>>,
      <<459, 475, 2, 1>>, <<478, 494, 2, 1>>, <<497, 497, 1, 2>>,
      <<498, 500, 2, 1>>, <<502, 502, 1, -97>>, <<503, 503, 1, -56>>,
      <<504, 542, 2, 1>>, <<544, 544, 1, -130>>, <<546, 562, 2, 1>>,
      <<570, 570, 1, 10795>>, <<571, 571, 1, 1>>, <<573, 573, 1, -163>>,
      <<574, 574, 1, 10792>>, <<577, 577, 1, 1>>, <<579, 579, 1, -195>>,
      <<580, 580, 1, 69>>, <<581, 581, 1, 71>>, <<582, 590, 2, 1>>,
      <<880, 882, 2, 1>>, <<886, 886, 1, 1>>, <<895, 895, 1, 116>>,
      <<902, 902, 1, 38>>, <<904, 906, 1, 37>>, <<908, 908, 1, 64>>,
      <<910, 911, 1, 63>>, <<913, 929, 1, 32>>, <<931, 939, 1, 32>>,
      <<975, 975, 1, 8>>, <<984, 1006, 2, 1>>, <<1012, 1012, 1, -60>>,
      <<1015, 1015, 1, 1>>, <<1017, 1017, 1, -7>>, <<1018, 1018, 1, 1>>,
      <<1021, 1023, 1, -130>>, <<1024, 1039, 1, 80>>, <<1040, 1071, 1, 32>>,
      <<1120, 1152, 2, 1>>, <<1162, 1214, 2, 1>>, <<1216, 1216, 1, 15>>,
      <<1217, 1229, 2, 1>>, <<1232, 1326, 2, 1>>, <<1329, 1366, 1, 48>>,
      <<4256, 4293, 1, 7264>>, <<4295, 4295, 1, 7264>>,
      <<4301, 4301, 1, 7264>>, <<5024, 5103, 1, 38864>>, <<5104, 5109, 1, 8>>,
      <<7312, 7354, 1, -3008>>, <<7357, 7359, 1, -3008>>,
      <<7680, 7828, 2, 1>>, <<7838, 7838, 1, -7615>>, <<7840, 7934, 2, 1>>,
      <<7944, 7951, 1, -8>>, <<7960, 7965, 1, -8>>, <<7976, 7983, 1, -8>>,
      <<7992, 7999, 1, -8>>, <<8008, 8013, 1, -8>>, <<8025, 8031, 2, -8>>,
      <<8040, 8047, 1, -8>>, <<8072, 8079, 1, -8>>, <<8088, 8095, 1, -8>>,
      <<8104, 8111, 1, -8>>, <<8120, 8121, 1, -8>>, <<8122, 8123, 1, -74>>,
      <<8124, 8124, 1, -9>>, <<8136, 8139, 1, -86>>, <<8140, 8140, 1, -9>>,
      <<8152, 8153, 1, -8>>, <<8154, 8155, 1, -100>>, <<8168, 8169, 1, -8>>,
      <<8170, 8171, 1, -112>>, <<8172, 8172, 1, -7>>, <<8184, 8185, 1, -128>>,
      <<8186, 8187, 1, -126>>, <<8188, 8188, 1, -9>>,
      <<8486, 8486, 1, -7517>>, <<8490, 8490, 1, -8383>>,
      <<8491, 8491, 1, -8262>>, <<8498, 8498, 1, 28>>, <<8544, 8559, 1, 16>>,
      <<8579, 8579, 1, 1>>, <<9398, 9423, 1, 26>>, <<11264, 11311, 1, 48>>,
      <<11360, 11360, 1, 1>>, <<11362, 11362, 1, -10743>>,
      <<11363, 11363, 1, -3814>>, <<11364, 11364, 1, -10727>>,
      <<11367, 11371, 2, 1>>, <<11373, 11373, 1, -10780>>,
      <<11374, 11374, 1, -10749>>, <<11375, 11375, 1, -10783>>,
      <<11376, 11376, 1, -10782>>, <<11378, 11378, 1, 1>>,
      <<11381, 11381, 1, 1>>, <<11390, 11391, 1, -10815>>,
      <<11392, 11490, 2, 1>>, <<11499, 11501, 2, 1>>, <<11506, 11506, 1, 1>>,
      <<42560, 42604, 2, 1>>, <<42624, 42650, 2, 1>>, <<42786, 42798, 2, 1>>,
      <<42802, 42862, 2, 1>>, <<42873, 42875, 2, 1>>,
      <<42877, 42877, 1, -35332>>, <<42878, 42886, 2, 1>>,
      <<42891, 42891, 1, 1>>, <<42893, 42893, 1, -42280>>,
      <<42896, 42898, 2, 1>>, <<42902, 42920, 2, 1>>,
      <<42922, 42922, 1, -42308>>, <<42923, 42923, 1, -42319>>,
      <<42924, 42924, 1, -42315>>, <<42925, 42925, 1, -42305>>,
      <<42926, 42926, 1, -42308>>, <<42928, 42928, 1, -42258>>,
      <<42929, 42929, 1, -42282>>, <<42930, 42930, 1, -42261>>,
      <<42931, 42931, 1, 928>>, <<42932, 42946, 2, 1>>,
      <<42948, 42948, 1, -48>>, <<42949, 42949, 1, -42307>>,
      <<42950, 42950, 1, -35384>>, <<42951, 42953, 2, 1>>,
      <<42960, 42960, 1, 1>>, <<42966, 42968, 2, 1>>, <<42997, 42997, 1, 1>>,
      <<65313, 65338, 1, 32>>, <<66560, 66599, 1, 40>>,
      <<66736, 66771, 1, 40>>, <<66928, 66938, 1, 39>>,
      <<66940, 66954, 1, 39>>, <<66956, 66962, 1, 39>>,
      <<66964, 66965, 1, 39>>, <<68736, 68786, 1, 64>>,
      <<71840, 71871, 1, 32>>, <<93760, 93791, 1, 32>>,
      <<125184, 125217, 1, 34>> >>

\* unicode.ToLower
LowerChar(c) ==
    IF \E k \in 1..Len(CaseRanges) :
          /\ c >= CaseRanges[k][1] /\ c <= CaseRanges[k][2]
          /\ (c - CaseRanges[k][1]) % CaseRanges[k][3] = 0
    THEN c + CaseRanges[CHOOSE k \in 1..Len(CaseRanges) :
                  /\ c >= CaseRanges[k][1] /\ c <= CaseRanges[k][2]
                  /\ (c - CaseRanges[k][1]) % CaseRanges[k][3] = 0][4]
    ELSE c

\* strings.ToLower: every code point mapped by unicode.ToLower
ToLower(s) == [i \in 1..Len(s) |-> LowerChar(s[i])]

\* unicode.IsSpace: the White_Space code points
IsSpace(c) ==
    \/ c \in 9..13 \/ c = 32 \/ c = 133 \/ c = 160 \/ c = 5760
    \/ c \in 8192..8202 \/ c \in {8232, 8233, 8239, 8287, 12288}

RECURSIVE TrimLeft(_)
TrimLeft(s) == IF s # << >> /\ IsSpace(s[1]) THEN TrimLeft(Tail(s)) ELSE s
RECURSIVE TrimRight(_)
TrimRight(s) ==
    IF s # << >> /\ IsSpace(s[Len(s)]) THEN TrimRight(SubSeq(s, 1, Len(s) - 1)) ELSE s
\* strings.TrimSpace
TrimSpace(s) == TrimLeft(TrimRight(s))

\* index of the last separator of path, 0 without one
LastSlash(path) ==
    IF ContainsChar(path, Rune("/"))
    THEN CHOOSE k \in 1..Len(path) :
            path[k] = Rune("/") /\ \A j \in (k + 1)..Len(path) : path[j] # Rune("/")
    ELSE 0

\* filepath.Ext: the suffix that starts at the last dot of the last element
Ext(path) ==
    LET from == LastSlash(path) + 1
    IN IF \E k \in from..Len(path) : path[k] = Rune(".")
       THEN LET i == CHOOSE k \in from..Len(path) :
                       path[k] = Rune(".") /\ \A j \in (k + 1)..Len(path) : path[j] # Rune(".")
            IN SubSeq(path, i, Len(path))
       ELSE << >>

\* strings.TrimPrefix(s, ".")
TrimDot(s) == IF HasPrefix(s, Runes(".")) THEN Tail(s) ELSE s

\* strings.TrimSuffix(s, suf)
TrimSuffix(s, suf) == IF HasSuffix(s, suf) THEN SubSeq(s, 1, Len(s) - Len(suf)) ELSE s
(***************************************************************************)
(* Calendar (Go: package time)                                             *)
(***************************************************************************)
IsLeap(y) == (y % 4 = 0 /\ y % 100 # 0) \/ y % 400 = 0

DaysIn(y, m) ==
    IF m = 2 THEN (IF IsLeap(y) THEN 29 ELSE 28)
    ELSE IF m \in {4, 6, 9, 11} THEN 30 ELSE 31

\* days from 1970-01-01 to the civil date y-m-d
DaysFromCivil(y, m, d) ==
    LET yy  == IF m <= 2 THEN y - 1 ELSE y
        era == yy \div 400
        yoe == yy - era * 400
        mp  == IF m > 2 THEN m - 3 ELSE m + 9
        doy == (153 * mp + 2) \div 5 + d - 1
        doe == yoe * 365 + yoe \div 4 - yoe \div 100 + doy
    IN era * 146097 + doe - 719468

\* the civil date of day z counted from 1970-01-01
CivilFromDays(z) ==
    LET zz  == z + 719468
        era == zz \div 146097
        doe == zz - era * 146097
        yoe == (doe - doe \div 1460 + doe \div 36524 - doe \div 146096) \div 365
        doy == doe - (365 * yoe + yoe \div 4 - yoe \div 100)
        mp  == (5 * doy + 2) \div 153
        d   == doy - (153 * mp + 2) \div 5 + 1
        m   == IF mp < 10 THEN mp + 3 ELSE mp - 9
        y   == yoe + era * 400 + (IF m <= 2 THEN 1 ELSE 0)
    IN [year |-> y, month |-> m, day |-> d]

(***************************************************************************)
(* Zones (Go: time.Location)                                               *)
(***************************************************************************)
\* before and after every instant of the model (Go: alpha, omega)
Alpha == -2147483647
Omega == 2147483647

\* a period of a zone: from the instant at on, the offset is off minutes
Period(at, off) == [at |-> at, off |-> off]

\* time.UTC and time.FixedZone(name, 60 * off)
UTC == <<Period(Alpha, 0)>>
FixedZone(off) == <<Period(Alpha, off)>>

\* loc.lookup(sec): the offset in seconds in use at the instant sec and the
\* bounds of the period it belongs to
lookup(loc, sec) ==
    LET i == CHOOSE k \in 1..Len(loc) :
                loc[k].at <= sec /\ (k = Len(loc) \/ loc[k + 1].at > sec)
    IN [offset |-> loc[i].off * 60, start |-> loc[i].at,
        end |-> IF i = Len(loc) THEN Omega ELSE loc[i + 1].at]

\* the instant of a wall clock reading at a fixed offset of off minutes
DateIn(y, m, d, hh, mm, ss, ns, off) ==
    [s  |-> DaysFromCivil(y, m, d) * 86400 + hh * 3600 + mm * 60 + ss - off * 60,
     ns |-> ns]

\* time.Date(y, m, d, hh, mm, ss, ns, loc): the reading is looked up as if
\* it were UTC; when the period found does not hold the instant it gives,
\* the offset is the one in use at that instant
Date(y, m, d, hh, mm, ss, ns, loc) ==
    LET offset(unix, first) ==
            IF first.offset = 0 THEN 0
            ELSE IF unix - first.offset < first.start \/ unix - first.offset >= first.end
            THEN lookup(loc, unix - first.offset).offset
            ELSE first.offset
        at(unix) == [s |-> unix - offset(unix, lookup(loc, unix)), ns |-> ns]
    IN at(DaysFromCivil(y, m, d) * 86400 + hh * 3600 + mm * 60 + ss)

\* t.In(loc): the wall clock fields of instant t in the zone, off the
\* zone's offset at t in minutes
WallClock(t, loc) ==
    LET fields(off, c, sod) ==
            [year |-> c.year, month |-> c.month, day |-> c.day,
             hour |-> sod \div 3600, minute |-> (sod % 3600) \div 60, second |-> sod % 60,
             ns |-> t.ns, off |-> off]
        local(off) == fields(off, CivilFromDays((t.s + off * 60) \div 86400),
                             (t.s + off * 60) % 86400)
    IN local(lookup(loc, t.s).offset \div 60)

\* t.Format("20060102_150405")
FormatCompact(w) ==
    Pad4(w.year) \o Pad2(w.month) \o Pad2(w.day) \o Runes("_")
        \o Pad2(w.hour) \o Pad2(w.minute) \o Pad2(w.second)

\* t.Format("2006:01:02 15:04:05")
FormatExif(w) ==
    Pad4(w.year) \o Runes(":") \o Pad2(w.month) \o Runes(":") \o Pad2(w.day) \o Runes(" ")
        \o Pad2(w.hour) \o Runes(":") \o Pad2(w.minute) \o Runes(":") \o Pad2(w.second)

\* t.Format("-07:00") for an offset of off minutes
FormatOffset(off) ==
    LET a == IF off < 0 THEN -off ELSE off
    IN (IF off < 0 THEN Runes("-") ELSE Runes("+"))
          \o Pad2(a \div 60) \o Runes(":") \o Pad2(a % 60)

(***************************************************************************)
(* parseTimeZone (src/main.go 63-83)                                       *)
(***************************************************************************)
\* the zones a host's time.Local may be: UTC; a zone at -05:00 with daylight
\* time at -04:00 from 2023-03-12T07:00:00Z to 2023-11-05T06:00:00Z
\* (America/New_York in the years of the inputs); a zone at +08:00 with
\* daylight time at +09:00 from 2006-12-02T18:00:00Z to 2007-03-24T18:00:00Z
\* (Australia/Perth)
Eastern == <<Period(Alpha, -300), Period(1678604400, -240), Period(1699164000, -300)>>
Perth == <<Period(Alpha, 480), Period(1165082400, 540), Period(1174759200, 480)>>
LocalZones == {UTC, Eastern, Perth}

\* the zone names the host's zone database knows, each with its zone
ZoneInfo ==
    << [name |-> Runes("Asia/Tokyo"), loc |-> FixedZone(540)],
       [name |-> Runes("America/New_York"), loc |-> Eastern],
       [name |-> Runes("Australia/Perth"), loc |-> Perth] >>

\* time.LoadLocation(name): "" and "UTC" are UTC, "Local" is time.Local, any
\* other name is looked up in the zone database
LoadLocation(name, local) ==
    IF name = << >> \/ name = Runes("UTC") THEN [err |-> FALSE, loc |-> UTC]
    ELSE IF name = Runes("Local") THEN [err |-> FALSE, loc |-> local]
    ELSE IF \E k \in 1..Len(ZoneInfo) : ZoneInfo[k].name = name
    THEN [err |-> FALSE,
          loc |-> ZoneInfo[CHOOSE k \in 1..Len(ZoneInfo) : ZoneInfo[k].name = name].loc]
    ELSE [err |-> TRUE, loc |-> UTC]

\* the zone element of a layout read at index z of s: "-07:00" is a sign,
\* two digits, a colon and two digits, "-0700" the same without the colon;
\* [ok, off in minutes, next the index after it]
ZoneAt(s, z, colon) ==
    LET m0 == IF colon THEN z + 4 ELSE z + 3
        zh == Atoi(s, z + 1, z + 2)
        zm == Atoi(s, m0, m0 + 1)
        ok == /\ Char(s, z) \in {Rune("+"), Rune("-")}
              /\ AllDigits(s, z + 1, z + 2)
              /\ colon => Char(s, z + 3) = Rune(":")
              /\ AllDigits(s, m0, m0 + 1)
              /\ zh <= 24 /\ zm <= 60
    IN [ok |-> ok,
        off |-> (IF Char(s, z) = Rune("-") THEN -1 ELSE 1) * (zh * 60 + zm),
        next |-> m0 + 2]

\* time.Parse(layout, "2006-01-02T15:04:05" + tzStr).Location() for the
\* layouts "2006-01-02T15:04:05-07:00" (colon) and "2006-01-02T15:04:05Z0700":
\* when time.Local is at the parsed offset at that instant the result is in
\* time.Local, else in a fixed zone of that offset
parseDummy(tzStr, colon, local) ==
    LET zoned(zn) ==
            IF zn.ok /\ zn.next = Len(tzStr) + 1
            THEN [err |-> FALSE,
                  loc |-> IF lookup(local, DateIn(2006, 1, 2, 15, 4, 5, 0, zn.off).s).offset
                                 = zn.off * 60
                          THEN local
                          ELSE FixedZone(zn.off)]
            ELSE [err |-> TRUE, loc |-> UTC]
    IN zoned(ZoneAt(tzStr, 1, colon))

\* parseTimeZone(tzStr) on a host whose time.Local is local: [err, loc]
parseTimeZone(tzStr, local) ==
    LET \* r when it is no error, else the next attempt
        orElse(r, next) == IF ~r.err THEN r ELSE next
    IN orElse(LoadLocation(tzStr, local),
              IF HasPrefix(tzStr, Runes("+")) \/ HasPrefix(tzStr, Runes("-"))
              THEN orElse(parseDummy(tzStr, TRUE, local),
                          orElse(parseDummy(tzStr, FALSE, local),
                                 [err |-> TRUE, loc |-> UTC]))
              ELSE [err |-> TRUE, loc |-> UTC])

(***************************************************************************)
(* parseExifTime (src/main.go 447-463) over Go's time.ParseInLocation      *)
(***************************************************************************)
RECURSIVE DigitRun(_, _)
\* number of consecutive digits of s starting at index i
DigitRun(s, i) == IF IsDigit(Char(s, i)) THEN 1 + DigitRun(s, i + 1) ELSE 0

RECURSIVE Pow10(_)
Pow10(k) == IF k = 0 THEN 1 ELSE 10 * Pow10(k - 1)

\* the layout list without its three zoned layouts
layoutsNaiveOnly ==
    << [text |-> "2006:01:02 15:04:05.999999999", frac |-> TRUE,  zone |-> ""],
       [text |-> "2006:01:02 15:04:05",           frac |-> FALSE, zone |-> ""] >>

\* the five layouts of parseExifTime, in order: does the layout name a
\* fractional second, and which zone element ends it
layouts ==
    << [text |-> "2006:01:02 15:04:05.999999999-07:00", frac |-> TRUE,  zone |-> "-07:00"],
       [text |-> "2006:01:02 15:04:05-07:00",           frac |-> FALSE, zone |-> "-07:00"],
       [text |-> "2006:01:02 15:04:05Z07:00",           frac |-> FALSE, zone |-> "Z07:00"],
       [text |-> "2006:01:02 15:04:05.999999999",       frac |-> TRUE,  zone |-> ""],
       [text |-> "2006:01:02 15:04:05",                 frac |-> FALSE, zone |-> ""] >>

NoTime == [s |-> 0, ns |-> 0]

RECURSIVE SpaceRun(_, _)
\* number of consecutive spaces of s starting at index i
SpaceRun(s, i) == IF Char(s, i) = Rune(" ") THEN 1 + SpaceRun(s, i + 1) ELSE 0

\* time.ParseInLocation(layout, s, loc): [ok, t].
\* Year is four digits, month, day, minute and second two, the hour one or two;
\* the space of the layout takes a run of one or more spaces;
\* a fraction after the seconds is read whether or not the layout names one;
\* "-07:00" needs a signed hh:mm, "Z07:00" takes "Z" or a signed hh:mm; text
\* left over, or a field out of range, fails the parse.  A reading without
\* zone is a wall clock of loc, one with a zone is at its own offset.
ParseInLocation(layout, s, loc) ==
    LET \* h0 the first digit of the hour, pm the ":" before the minute, nfr
        \* the number of fraction digits
        parsed(h0, pm, nfr) ==
            LET q     == pm + 6            \* first index after the seconds
                head  == /\ AllDigits(s, 1, 4) /\ Char(s, 5) = Rune(":")
                         /\ AllDigits(s, 6, 7) /\ Char(s, 8) = Rune(":")
                         /\ AllDigits(s, 9, 10) /\ h0 >= 12
                         /\ IsDigit(Char(s, h0))
                         /\ Char(s, pm) = Rune(":") /\ AllDigits(s, pm + 1, pm + 2)
                         /\ Char(s, pm + 3) = Rune(":") /\ AllDigits(s, pm + 4, pm + 5)
                used  == IF nfr > 9 THEN 9 ELSE nfr
                ns    == IF nfr > 0 THEN Atoi(s, q + 1, q + used) * Pow10(9 - used) ELSE 0
                z     == IF nfr > 0 THEN q + 1 + nfr ELSE q   \* first index of the zone text
                isZ   == layout.zone = "Z07:00" /\ Char(s, z) = Rune("Z")
                y     == Atoi(s, 1, 4)
                mo    == Atoi(s, 6, 7)
                d     == Atoi(s, 9, 10)
                hh    == Atoi(s, h0, pm - 1)
                mi    == Atoi(s, pm + 1, pm + 2)
                ss    == Atoi(s, pm + 4, pm + 5)
                range == /\ mo >= 1 /\ mo <= 12 /\ d >= 1 /\ d <= DaysIn(y, mo)
                         /\ hh < 24 /\ mi < 60 /\ ss < 60
                zoned(zn) ==
                    IF /\ head
                       /\ IF layout.zone = "" THEN TRUE ELSE isZ \/ zn.ok
                       /\ Len(s) + 1 = (IF layout.zone = "" THEN z
                                        ELSE IF isZ THEN z + 1 ELSE zn.next)
                       /\ range
                    THEN [ok |-> TRUE,
                          t |-> IF layout.zone = "" \/ isZ
                                THEN Date(y, mo, d, hh, mi, ss, ns,
                                          IF layout.zone = "" THEN loc ELSE UTC)
                                ELSE DateIn(y, mo, d, hh, mi, ss, ns, zn.off)]
                    ELSE [ok |-> FALSE, t |-> NoTime]
            IN zoned(ZoneAt(s, z, TRUE))
        fraction(h0, pm) ==
            parsed(h0, pm,
                   IF Char(s, pm + 6) \in {Rune("."), Rune(",")} /\ IsDigit(Char(s, pm + 7))
                   THEN DigitRun(s, pm + 7) ELSE 0)
        hour(h0) == fraction(h0, h0 + (IF IsDigit(Char(s, h0 + 1)) THEN 2 ELSE 1))
    IN hour(11 + SpaceRun(s, 11))

RECURSIVE parseFrom(_, _, _)
\* the first layout from index i on that parses dateStr wins
parseFrom(i, dateStr, loc) ==
    IF i > Len(layouts) THEN [ok |-> FALSE, t |-> NoTime]
    ELSE LET first(r) == IF r.ok THEN r ELSE parseFrom(i + 1, dateStr, loc)
         IN first(ParseInLocation(layouts[i], dateStr, loc))

parseExifTime(dateStr, loc) == parseFrom(1, dateStr, loc)

(***************************************************************************)
(* Metadata provider (exiftool), as the program uses it                    *)
(***************************************************************************)
Sentinel == Runes("0000:00:00 00:00:00")

ImageDateFields   == <<"DateTimeOriginal", "CreateDate", "ModifyDate">>
ImageOffsetFields == <<"OffsetTimeOriginal", "OffsetTimeDigitized", "OffsetTime">>
ImageSubSecFields == <<"SubSecTimeOriginal", "SubSecTimeDigitized", "SubSecTime">>
videoTags == <<"MediaCreateDate", "TrackCreateDate", "CreateDate",
               "MediaModifyDate", "TrackModifyDate", "ModifyDate">>

Range(seq) == {seq[i] : i \in 1..Len(seq)}

ImageFields == Range(ImageDateFields) \cup Range(ImageOffsetFields) \cup Range(ImageSubSecFields)
VideoFields == {"QuickTime:" \o tg : tg \in Range(videoTags)}
MetaFields  == ImageFields \cup VideoFields

NoMeta == [fld \in MetaFields |-> << >>]

\* the candidate tags of getAuthoritativeTime, in probing order
ImageTimeTags == <<"Composite:SubSecDateTimeOriginal", "DateTimeOriginal">>
VideoTimeTags == <<"MediaCreateDate", "TrackCreateDate", "CreateDate">>

\* exiftool's Composite:SubSecDateTimeOriginal: DateTimeOriginal with the
\* sub-second and offset fields appended, defined only when DateTimeOriginal
\* exists and at least one of the two does
CompositeSubSec(meta) ==
    LET d  == meta["DateTimeOriginal"]
        ss == meta["SubSecTimeOriginal"]
        of == meta["OffsetTimeOriginal"]
    IN IF d = << >> \/ (ss = << >> /\ of = << >>) THEN << >>
       ELSE d \o (IF ss = << >> THEN << >> ELSE Runes(".") \o ss) \o of

\* what `exiftool -q -m -p $TAG file` prints for a tag of the file
TagValue(meta, tag) ==
    IF tag = "Composite:SubSecDateTimeOriginal" THEN CompositeSubSec(meta)
    ELSE IF tag = "DateTimeOriginal" THEN meta["DateTimeOriginal"]
    ELSE meta["QuickTime:" \o tag]

\* getExifDate: rd = [err, out] is how the exiftool read ended and what it
\* printed; a failed command is an error, an empty or sentinel line is ""
getExifDate(rd) ==
    IF rd.err THEN [err |-> TRUE, str |-> << >>]
    ELSE LET dateStr == TrimSpace(rd.out)
         IN IF dateStr = << >> \/ dateStr = Sentinel
            THEN [err |-> FALSE, str |-> << >>]
            ELSE [err |-> FALSE, str |-> dateStr]

(***************************************************************************)
(* getAuthoritativeTime (src/main.go 305-365)                              *)
(***************************************************************************)
\* the raw string carries its own zone: it holds "+" or "-" or ends in "Z"
HasZoneText(dateStr) ==
    \/ ContainsChar(dateStr, Rune("+")) \/ ContainsChar(dateStr, Rune("-"))
    \/ HasSuffix(dateStr, Runes("Z"))

\* every offset-less string is read in the target zone, a video's too
assumedLocationTargetForAll(dateStr, isImage, loc) ==
    IF \/ ContainsChar(dateStr, Rune("+")) \/ ContainsChar(dateStr, Rune("-"))
       \/ HasSuffix(dateStr, Runes("Z"))
    THEN UTC ELSE loc

\* the zone a raw string is parsed in: UTC for a zoned string (its own offset
\* then decides), the target zone for a naive image time, UTC for a naive video time
assumedLocation(dateStr, isImage, loc) ==
    IF HasZoneText(dateStr) THEN UTC
    ELSE IF isImage THEN loc ELSE UTC

RECURSIVE scanTags(_, _, _, _, _)
\* the tag loop from index i on; reads[tag] is the outcome of the tag's read.
\* A tag is skipped when its read fails or yields "" (lines 323-326) or when
\* its string does not parse (lines 340-343).
scanTags(i, timeTags, reads, isImage, loc) ==
    IF i > Len(timeTags)
    THEN [found |-> FALSE, t |-> NoTime, tag |-> "", probed |-> Len(timeTags)]
    ELSE LET g == getExifDate(reads[timeTags[i]])
             parsed(p) ==
                 IF p.ok THEN [found |-> TRUE, t |-> p.t, tag |-> timeTags[i], probed |-> i]
                 ELSE scanTags(i + 1, timeTags, reads, isImage, loc)
         IN IF g.err \/ g.str = << >>
            THEN scanTags(i + 1, timeTags, reads, isImage, loc)
            ELSE parsed(parseExifTime(g.str, assumedLocation(g.str, isImage, loc)))

\* imageExtMap[strings.ToLower(strings.TrimPrefix(filepath.Ext(path), "."))]
extIn(extMap, path) == ToLower(TrimDot(Ext(path))) \in extMap

\* the candidate tags with the least precise one first
timeTagsOfReversed(isImage) ==
    IF isImage THEN <<"DateTimeOriginal", "Composite:SubSecDateTimeOriginal">>
    ELSE <<"CreateDate", "TrackCreateDate", "MediaCreateDate">>

timeTagsOf(isImage) == IF isImage THEN ImageTimeTags ELSE VideoTimeTags

\* the file is stat'ed before the tags are read and a stat failure is returned
getAuthoritativeTimeStatFirst(path, exiftoolPath, imageExtMap, loc, reads, stat) ==
    LET outcome(hit) ==
            IF stat.err
            THEN [t |-> NoTime, source |-> "", isAuthoritative |-> FALSE, err |-> TRUE,
                  probed |-> 0]
            ELSE IF hit.found
            THEN [t |-> hit.t, source |-> "metadata (" \o hit.tag \o ")",
                  isAuthoritative |-> TRUE, err |-> FALSE, probed |-> hit.probed]
            ELSE [t |-> stat.mtime, source |-> "mtime", isAuthoritative |-> FALSE,
                  err |-> FALSE, probed |-> hit.probed]
        isImage == extIn(imageExtMap, path)
    IN outcome(IF exiftoolPath # ""
               THEN scanTags(1, timeTagsOf(isImage), reads, isImage, loc)
               ELSE [found |-> FALSE, t |-> NoTime, tag |-> "", probed |-> 0])

\* getAuthoritativeTime: reads are the tag read outcomes, stat = [err, mtime]
\* the outcome of os.Stat; returns (time, source, isAuthoritative, err), and
\* probed, the number of tag reads it made
getAuthoritativeTime(path, exiftoolPath, imageExtMap, loc, reads, stat) ==
    LET outcome(hit) ==
            IF hit.found
            THEN [t |-> hit.t, source |-> "metadata (" \o hit.tag \o ")",
                  isAuthoritative |-> TRUE, err |-> FALSE, probed |-> hit.probed]
            ELSE IF stat.err
            THEN [t |-> NoTime, source |-> "", isAuthoritative |-> FALSE, err |-> TRUE,
                  probed |-> hit.probed]
            ELSE [t |-> stat.mtime, source |-> "mtime", isAuthoritative |-> FALSE,
                  err |-> FALSE, probed |-> hit.probed]
        isImage == extIn(imageExtMap, path)
    IN outcome(IF exiftoolPath # ""
               THEN scanTags(1, timeTagsOf(isImage), reads, isImage, loc)
               ELSE [found |-> FALSE, t |-> NoTime, tag |-> "", probed |-> 0])

(***************************************************************************)
(* generateNewFilename, getUniquePath (src/main.go 502-521)                *)
(***************************************************************************)
\* the milliseconds cut off instead of rounded
roundedMsTruncated(ns) == ns \div 1000000

\* (t.Nanosecond() + 500000) / 1000000
roundedMs(ns) == (ns + 500000) \div 1000000

\* if roundedMs >= 1000 { roundedMs = 999 }
clampMs(ms) == IF ms >= 1000 THEN 999 ELSE ms

\* the extension written in lower case
generateNewFilenameLowerExt(w, prefix, originalPath, isAuthoritative) ==
    LET ext == ToLower(Ext(originalPath))
        baseTime == FormatCompact(w)
    IN IF isAuthoritative /\ roundedMs(w.ns) > 0
       THEN prefix \o Runes("_") \o baseTime \o Runes("_") \o Pad3(clampMs(roundedMs(w.ns))) \o ext
       ELSE prefix \o Runes("_") \o baseTime \o ext

\* the name built on the file's current name instead of the prefix
generateNewFilenameKeepsStem(w, prefix, originalPath, isAuthoritative) ==
    LET ext == Ext(originalPath)
        baseTime == FormatCompact(w)
        stem == TrimSuffix(originalPath, ext)
    IN IF isAuthoritative /\ roundedMs(w.ns) > 0
       THEN stem \o Runes("_") \o baseTime \o Runes("_") \o Pad3(clampMs(roundedMs(w.ns))) \o ext
       ELSE stem \o Runes("_") \o baseTime \o ext

\* the milliseconds are appended whatever the source of the instant
generateNewFilenameAlwaysMs(w, prefix, originalPath, isAuthoritative) ==
    LET ext == Ext(originalPath)
        baseTime == FormatCompact(w)
    IN IF roundedMs(w.ns) > 0
       THEN prefix \o Runes("_") \o baseTime \o Runes("_") \o Pad3(clampMs(roundedMs(w.ns))) \o ext
       ELSE prefix \o Runes("_") \o baseTime \o ext

\* w is the wall clock of t in t's zone
generateNewFilename(w, prefix, originalPath, isAuthoritative) ==
    LET ext == Ext(originalPath)
        baseTime == FormatCompact(w)
    IN IF isAuthoritative /\ roundedMs(w.ns) > 0
       THEN prefix \o Runes("_") \o baseTime \o Runes("_") \o Pad3(clampMs(roundedMs(w.ns))) \o ext
       ELSE prefix \o Runes("_") \o baseTime \o ext

\* the suffix appended whether or not the ideal path is taken
getUniquePathAlwaysSuffixed(path, exists, randNum) ==
    LET ext == Ext(path)
        baseName == TrimSuffix(path, ext)
    IN baseName \o Runes("_[") \o Pad3(randNum) \o Runes("]") \o ext

\* getUniquePath: exists is whether os.Stat finds the path, randNum the draw
getUniquePath(path, exists, randNum) ==
    IF ~exists THEN path
    ELSE LET ext == Ext(path)
             baseName == TrimSuffix(path, ext)
         IN baseName \o Runes("_[") \o Pad3(randNum) \o Runes("]") \o ext

\* no promotion: the resolver's flag goes to generateNewFilename as it is
promoteNever(isAuthoritative, exiftoolPath, ns) == isAuthoritative

\* every mtime-derived instant promoted when the tool is there
promoteOnAnyMtime(isAuthoritative, exiftoolPath, ns) ==
    IF ~isAuthoritative /\ exiftoolPath # "" THEN TRUE ELSE isAuthoritative

\* the promotion made whether or not the tool is there to store the milliseconds
promoteWithoutTool(isAuthoritative, exiftoolPath, ns) ==
    IF ~isAuthoritative /\ roundedMs(ns) > 0 THEN TRUE ELSE isAuthoritative

\* the promotion of processFile (src/main.go 245-248)
promote(isAuthoritative, exiftoolPath, ns) ==
    IF ~isAuthoritative /\ exiftoolPath # "" /\ roundedMs(ns) > 0 THEN TRUE
    ELSE isAuthoritative

(***************************************************************************)
(* enrichMetadata (src/main.go 368-444)                                    *)
(***************************************************************************)
\* one "-if COND -TAG=VALUE" triple; zeroToo: the condition also accepts the
\* sentinel ("not $TAG or $TAG eq \"0000:00:00 00:00:00\"" against "not $TAG")
Assign(tag, zeroToo, value) == [tag |-> tag, zeroToo |-> zeroToo, value |-> value]

AssignAll(tags, zeroToo, value) == [i \in 1..Len(tags) |-> Assign(tags[i], zeroToo, value)]

\* the triples enrichMetadata appends after "-charset UTF8" for instant t,
\* expressed in the zone loc
enrichArgs(t, loc, isImage) ==
    IF isImage
    THEN LET ms == roundedMs(t.ns)
             image(w) ==
                 AssignAll(ImageDateFields, TRUE, FormatExif(w))
                   \o AssignAll(ImageOffsetFields, FALSE, FormatOffset(w.off))
                   \o (IF ms > 0 THEN AssignAll(ImageSubSecFields, FALSE, Pad3(clampMs(ms)))
                       ELSE << >>)
         IN image(WallClock(t, loc))
    ELSE LET utcTimeStr == FormatExif(WallClock(t, UTC))
         IN [i \in 1..Len(videoTags) |->
                Assign("QuickTime:" \o videoTags[i], TRUE, utcTimeStr)]

\* the condition of a triple, evaluated by the tool on the value the file
\* holds: "not $TAG" is true of a missing tag and of the text 0, the two
\* values the tool's expression language takes as false
guardHolds(a, value) ==
    value \in {<< >>, Runes("0")} \/ (a.zeroToo /\ value = Sentinel)

\* the file's fields after the tool has run the triples against meta
applyPatch(meta, patch) ==
    [fld \in MetaFields |->
        IF \E i \in 1..Len(patch) : patch[i].tag = fld /\ guardHolds(patch[i], meta[fld])
        THEN (patch[CHOOSE i \in 1..Len(patch) : patch[i].tag = fld]).value
        ELSE meta[fld]]

(***************************************************************************)
(* Bounds and inputs                                                       *)
(***************************************************************************)
\* files in the target directory at the start
MaxFiles == 3
\* collision suffixes are drawn from 0..NumSuffix-1 (the program: 0..999)
NumSuffix == 2
\* runs of the program over the same directory
MaxRuns == 2
\* faults and external edits the environment may inject in one behaviour
MaxEnv == 1

\* the configuration loadConfig returns without a config.json
DefaultConfig ==
    [ImagePrefix |-> Runes("IMG"), VideoPrefix |-> Runes("VID"),
     TargetTimezone |-> Runes("+08:00"),
     SupportedImageExtensions |->
         <<Runes("jpg"), Runes("jpeg"), Runes("png"), Runes("heic"), Runes("webp"),
           Runes("gif")>>,
     SupportedVideoExtensions |->
         <<Runes("mp4"), Runes("mov"), Runes("avi"), Runes("mkv")>>]

\* sliceToMap: the keys of the map are the list entries as written
sliceToMap(s) == Range(s)

\* 2023-08-15T14:30:05+08:00 and readings within that second
Shot(ns) == [s |-> 1692081005, ns |-> ns]
\* the clock when the tool rewrites a file: 2024-01-01T00:00:00.123456789Z
Now == [s |-> 1704067200, ns |-> 123456789]
\* 2007-01-15T03:00:00Z, in the daylight time of Perth
Summer == [s |-> 1168830000, ns |-> 0]

\* texts of one character no ASCII literal spells.  U+0130, capital I with
\* dot above, and U+212A, the Kelvin sign: unicode.ToLower maps them to "i"
\* and "k"; U+00C9 and U+00E9, E with acute, capital and small
DottedI == <<304>>
KelvinSign == <<8490>>
EAcuteCapital == <<201>>
EAcute == <<233>>

\* white space without an escape: U+000B, U+0085, U+00A0, U+2000, U+2028, U+3000
VerticalTab == <<11>>
NextLine == <<133>>
NoBreakSpace == <<160>>
EnQuad == <<8192>>
LineSeparator == <<8232>>
IdeographicSpace == <<12288>>

Meta(kv) ==
    [fld \in MetaFields |->
        IF \E i \in 1..Len(kv) : kv[i][1] = fld
        THEN kv[CHOOSE i \in 1..Len(kv) : kv[i][1] = fld][2]
        ELSE << >>]

File(name, mtime, kv) == [name |-> name, mtime |-> mtime, meta |-> Meta(kv)]

\* the files a directory may hold at the start
Catalogue ==
    << File(Runes("a.mkv"), Shot(0), << >>),
       File(Runes("b.mkv"), Shot(0), << >>),
       File(Runes("c.mkv"), Shot(0), << >>),
       File(Runes("VID_20230815_143005.mkv"), Shot(0), << >>),
       File(Runes("VID_20230815_143005_[000].mkv"), Shot(0), << >>),
       File(Runes("w.mp4"), Shot(750000000), << >>),
       File(Runes("m.MOV"), Now,
            << <<"QuickTime:MediaCreateDate", Sentinel>>,
               <<"QuickTime:TrackCreateDate", Runes("2023-08-15 06:30:05")>>,
               <<"QuickTime:CreateDate", Runes("2023:08:15 06:30:05")>>,
               <<"QuickTime:ModifyDate", Runes("2023:08:16 01:02:03")>> >>),
       File(Runes("p.jpg"), Shot(750000000), << >>),
       File(Runes("q.JPG"), Now,
            << <<"DateTimeOriginal", Runes("2023:08:15 14:30:05")>>,
               <<"SubSecTimeOriginal", Runes("750")>>,
               <<"OffsetTimeOriginal", Runes("+08:00")>>,
               <<"CreateDate", Runes("2023:08:15 14:30:07")>> >>),
       File(Runes("r.jpeg"), Shot(750000000),
            << <<"OffsetTimeOriginal", Runes("-05:00")>>, <<"ModifyDate", Sentinel>> >>),
       File(Runes("s.png"), Now,
            << <<"DateTimeOriginal", Runes("2023:08:15 14:30:05")>>,
               <<"OffsetTime", Runes("+09:00")>>, <<"SubSecTime", Runes("123")>> >>),
       File(Runes("t.jpg"), Shot(999600000), << >>),
       File(Runes("old.mkv"), [s |-> 1672502400, ns |-> 0], << >>),
       File(Runes("notes.txt"), Shot(0), << >>),
       File(Runes("u.png"), Shot(400000), << >>),
       File(Runes("v.jpg"), Shot(750000000), << <<"SubSecTime", Runes("0")>> >>),
       File(Runes("y.mkv"), Summer, << >>),
       File(Runes("z.jpg"), Now, << <<"DateTimeOriginal", Runes("2007:01:15 12:00:00")>> >>),
       File(Runes("x.HE") \o DottedI \o Runes("C"), Shot(0), << >>),
       File(Runes("x.M") \o KelvinSign \o Runes("V"), Shot(0), << >>) >>

FileIds == 1..Len(Catalogue)

\* the files without metadata that are put together in one directory
GroupIds == {f \in FileIds : Catalogue[f].name \in
                {Runes("a.mkv"), Runes("b.mkv"), Runes("c.mkv"), Runes("notes.txt")}}

\* the directories a run may start on: any single file of the catalogue, or
\* up to MaxFiles of the group files
Directories ==
    {{f} : f \in FileIds}
        \cup {S \in SUBSET GroupIds : Cardinality(S) >= 2 /\ Cardinality(S) <= MaxFiles}

\* the fields an external program may fill in one go, and the value it writes
EditGroups(isImage) ==
    IF isImage THEN {Range(ImageDateFields), Range(ImageOffsetFields), Range(ImageSubSecFields)}
    ELSE {VideoFields}

EditValue(fld) ==
    IF fld \in Range(ImageOffsetFields) THEN Runes("-05:00")
    ELSE IF fld \in Range(ImageSubSecFields) THEN Runes("123")
    ELSE Runes("2001:01:01 01:01:01")

(***************************************************************************)
(* Directory listing order (filepath.WalkDir reads a directory sorted)     *)
(***************************************************************************)
RECURSIVE StrLess(_, _)
\* a < b of Go strings: byte order, which for UTF-8 is code point order
StrLess(a, b) ==
    IF b = << >> THEN FALSE
    ELSE IF a = << >> THEN TRUE
    ELSE IF a[1] # b[1] THEN a[1] < b[1]
    ELSE StrLess(Tail(a), Tail(b))

RECURSIVE SortNames(_)
SortNames(S) ==
    IF S = {} THEN << >>
    ELSE LET m == CHOOSE x \in S : \A y \in S \ {x} : StrLess(x, y)
         IN <<m>> \o SortNames(S \ {m})

(***************************************************************************)
(* State                                                                   *)
(***************************************************************************)
VARIABLES
    cfg,            \* the configuration loadConfig returned
    Local,          \* the host's time.Local
    exiftoolPath,   \* "" when the tool was not found
    fs,             \* FileIds -> [name, alive, mtime, meta]: the directory
    lost,           \* files whose content a rename replaced
    queue,          \* names WalkDir has listed and not yet visited
    run,            \* number of the current run
    pc,             \* position in processFile: walk, rename, enrich, sync
    cur,            \* the locals of processFile for the file in progress
    hist,           \* FileIds -> outcome of the file's latest finished pipeline
    env,            \* faults and edits the environment may still inject
    last,           \* what the latest step did
    args,           \* the arguments of a single function call under study
    result          \* what that call returned

vars ==
    <<cfg, Local, exiftoolPath, fs, lost, queue, run, pc, cur, hist, env, last, args, result>>

imageExtMap == sliceToMap(cfg.SupportedImageExtensions)
videoExtMap == sliceToMap(cfg.SupportedVideoExtensions)
\* targetLocation, err := parseTimeZone(cfg.TargetTimezone); the walk starts
\* only when err is nil
targetLocation == parseTimeZone(cfg.TargetTimezone, Local).loc

Exists(name) == \E f \in DOMAIN fs : fs[f].alive /\ fs[f].name = name
Lookup(name) == CHOOSE f \in DOMAIN fs : fs[f].alive /\ fs[f].name = name

Listing == SortNames({fs[f].name : f \in {g \in DOMAIN fs : fs[g].alive}})

NoCur ==
    [path |-> << >>, prefix |-> << >>, t |-> NoTime, source |-> "", isAuthoritative |-> FALSE,
     nameAuth |-> FALSE, newBaseName |-> << >>, finalNewPath |-> << >>, enrichErr |-> FALSE]

NoHist ==
    [seen |-> FALSE, source |-> "", t |-> NoTime, ok |-> FALSE, suffixed |-> FALSE,
     final |-> << >>, run |-> 0]

\* no file
NoFile == [name |-> << >>, alive |-> FALSE, mtime |-> NoTime, atime |-> NoTime, meta |-> NoMeta]

\* was: the file as it was before the step; logs: the steps the step's
\* log.Printf lines name; probed: tag reads made; exit: the tool's exit status
NoLast ==
    [op |-> "init", f |-> 0, from |-> << >>, to |-> << >>, renamed |-> FALSE, victim |-> 0,
     err |-> "", invoked |-> FALSE, patch |-> << >>, before |-> NoMeta, reads |-> << >>,
     was |-> NoFile, exit |-> 0, logs |-> {}, probed |-> 0]

\* no function call is under study
NoArgs == [fn |-> ""]
NoResult == [fn |-> ""]

\* a file of the catalogue as the directory holds it at the start
StartFile(f) ==
    [name |-> Catalogue[f].name, alive |-> TRUE, mtime |-> Catalogue[f].mtime,
     atime |-> Catalogue[f].mtime, meta |-> Catalogue[f].meta]

\* the hosts of the pipeline: one in UTC and one in Perth, where the offset
\* +08:00 of the configuration is the local one
PipelineHosts == {UTC, Perth}

Init ==
    /\ cfg = DefaultConfig
    /\ Local \in PipelineHosts
    /\ exiftoolPath \in {"", "/usr/bin/exiftool"}
    /\ \E S \in Directories :
          /\ fs = [f \in S |-> StartFile(f)]
          /\ queue = SortNames({Catalogue[f].name : f \in S})
          /\ hist = [f \in S |-> NoHist]
    /\ lost = {}
    /\ run = 1
    /\ pc = "walk"
    /\ cur = NoCur
    /\ env = MaxEnv
    /\ last = NoLast
    /\ args = NoArgs
    /\ result = NoResult

(***************************************************************************)
(* The WalkDir callback and processFile (src/main.go 189-278), one action  *)
(* per external call sequence                                              *)
(***************************************************************************)
isImagePath(path) == extIn(imageExtMap, path)

\* every file that is not an image is taken as a video
isVideoPathEveryFile(path) == TRUE
isVideoPath(path) == extIn(videoExtMap, path)

\* a failed getUniquePath or os.Rename never reaches the metadata write
stepAfterRenameGoesOn(failed) == "enrich"

\* processFile after getUniquePath and os.Rename: it returns when either
\* failed (lines 258-261)
stepAfterRename(failed) == IF failed THEN "return" ELSE "enrich"

\* the callback hands a file's failure to WalkDir
walkFuncResultStopOnFileError(walkErr, fileFailed) ==
    IF walkErr \/ fileFailed THEN "err" ELSE "nil"

\* what the WalkDir callback returns: the error WalkDir passed in (line 190),
\* nil after processFile, which reports nothing back (lines 213-214)
walkFuncResult(walkErr, fileFailed) == IF walkErr THEN "err" ELSE "nil"

\* WalkDir goes on after nil and stops at an error, which main makes fatal
\* (line 216)
pcAfter(ret) == IF ret = "nil" THEN "walk" ELSE "aborted"

\* every non-zero exit status of the tool is an error
enrichFailedOnWarnings(exit) == exit # 0

\* enrichMetadata's error for the tool's exit status (lines 433-441)
enrichFailed(exit) == exit # 0 /\ exit # 2

\* only the access time is set
syncFileTimestampAtimeOnly(file, t) == [file EXCEPT !.atime = t]

\* os.Chtimes(path, t, t)
syncFileTimestamp(file, t) == [file EXCEPT !.atime = t, !.mtime = t]

\* the callback returns at once for a file of neither class
SkipEntry ==
    /\ pc = "walk" /\ queue # << >>
    /\ ~isImagePath(Head(queue)) /\ ~isVideoPath(Head(queue))
    /\ queue' = Tail(queue)
    /\ last' = [NoLast EXCEPT !.op = "skip", !.from = Head(queue)]
    /\ UNCHANGED <<cfg, Local, args, result, exiftoolPath, fs, lost, run, pc, cur, hist, env>>

\* position of a tag in a tag list, 0 when absent
TagIndex(tags, tag) ==
    IF \E i \in 1..Len(tags) : tags[i] = tag
    THEN CHOOSE i \in 1..Len(tags) : tags[i] = tag ELSE 0

\* the read outcomes of every candidate tag of a file, the tags in bad failing
readsOf(meta, tags, bad) ==
    [tg \in Range(tags) |->
        IF tg \in bad THEN [err |-> TRUE, out |-> << >>]
        ELSE [err |-> FALSE, out |-> TagValue(meta, tg) \o Runes("\n")]]

\* the callback classifies the file; processFile resolves its time and plans
\* its name (lines 204-252)
Resolve ==
    /\ pc = "walk" /\ queue # << >>
    /\ LET path == Head(queue)
           isImage == isImagePath(path)
           prefix == IF isImage THEN cfg.ImagePrefix ELSE cfg.VideoPrefix
           f == Lookup(path)
           tags == timeTagsOf(isImage)
       IN /\ isImage \/ isVideoPath(path)
          /\ \E bad \in SUBSET Range(tags), statErr \in BOOLEAN :
               \E reads \in {readsOf(fs[f].meta, tags, bad)} :
               \E r \in {getAuthoritativeTime(path, exiftoolPath, imageExtMap,
                             targetLocation, reads,
                             [err |-> statErr, mtime |-> fs[f].mtime])} :
               \E w \in {WallClock(r.t, targetLocation)} :
               \E nameAuth \in {promote(r.isAuthoritative, exiftoolPath, w.ns)} :
               LET cost == Cardinality(bad) + (IF statErr THEN 1 ELSE 0)
               IN /\ cost <= env
                  /\ bad # {} => exiftoolPath # ""
                  /\ \A tg \in bad : TagIndex(tags, tg) <= r.probed
                  /\ statErr => ~r.isAuthoritative
                  /\ env' = env - cost
                  /\ IF r.err
                     THEN /\ pc' = pcAfter(walkFuncResult(FALSE, TRUE))
                          /\ queue' = Tail(queue)
                          /\ cur' = NoCur
                          /\ hist' = [hist EXCEPT ![f] =
                                 [seen |-> TRUE, source |-> "", t |-> NoTime, ok |-> FALSE,
                                  suffixed |-> FALSE, final |-> path, run |-> run]]
                          /\ last' = [NoLast EXCEPT !.op = "resolve", !.f = f,
                                        !.from = path, !.err = "stat", !.reads = reads,
                                        !.was = fs[f], !.probed = r.probed,
                                        !.logs = {"resolve"}]
                     ELSE /\ pc' = "rename"
                          /\ queue' = queue
                          /\ cur' = [path |-> path, prefix |-> prefix, t |-> r.t,
                                     source |-> r.source,
                                     isAuthoritative |-> r.isAuthoritative,
                                     nameAuth |-> nameAuth,
                                     newBaseName |-> generateNewFilename(w, prefix, path, nameAuth),
                                     finalNewPath |-> path, enrichErr |-> FALSE]
                          /\ hist' = hist
                          /\ last' = [NoLast EXCEPT !.op = "resolve", !.f = f,
                                        !.from = path, !.reads = reads,
                                        !.was = fs[f], !.probed = r.probed]
    /\ UNCHANGED <<cfg, Local, args, result, exiftoolPath, fs, lost, run>>

\* lines 252-265: the rename, or no rename when the name already matches
Rename ==
    /\ pc = "rename"
    /\ LET f == Lookup(cur.path)
       IN IF cur.newBaseName = cur.path
          THEN /\ pc' = "enrich"
               /\ last' = [NoLast EXCEPT !.op = "rename", !.f = f, !.from = cur.path,
                             !.to = cur.path, !.was = fs[f]]
               /\ UNCHANGED <<fs, lost, queue, cur, hist, env>>
          ELSE \E randNum \in (IF Exists(cur.newBaseName) THEN 0..(NumSuffix - 1) ELSE {0}),
                  fault \in {"", "rand", "rename"} :
                 LET exists == Exists(cur.newBaseName)
                     final == getUniquePath(cur.newBaseName, exists, randNum)
                     victims == {g \in DOMAIN fs \ {f} : fs[g].alive /\ fs[g].name = final}
                 IN /\ fault # "" => env > 0
                    /\ fault = "rand" => exists
                    /\ env' = IF fault = "" THEN env ELSE env - 1
                    /\ IF fault = ""
                       THEN /\ fs' = [g \in DOMAIN fs |->
                                        IF g = f THEN [fs[g] EXCEPT !.name = final]
                                        ELSE IF g \in victims THEN [fs[g] EXCEPT !.alive = FALSE]
                                        ELSE fs[g]]
                            /\ lost' = lost \cup victims
                            /\ cur' = [cur EXCEPT !.finalNewPath = final]
                            /\ pc' = stepAfterRename(FALSE)
                            /\ queue' = queue
                            /\ hist' = hist
                            /\ last' = [NoLast EXCEPT !.op = "rename", !.f = f,
                                          !.from = cur.path, !.to = final, !.renamed = TRUE,
                                          !.was = fs[f],
                                          !.victim = IF victims = {} THEN 0
                                                     ELSE CHOOSE g \in victims : TRUE]
                       ELSE /\ pc' = IF stepAfterRename(TRUE) = "return"
                                     THEN pcAfter(walkFuncResult(FALSE, TRUE))
                                     ELSE stepAfterRename(TRUE)
                            /\ queue' = IF stepAfterRename(TRUE) = "return"
                                        THEN Tail(queue) ELSE queue
                            /\ cur' = IF stepAfterRename(TRUE) = "return" THEN NoCur ELSE cur
                            /\ hist' = [hist EXCEPT ![f] =
                                   [seen |-> TRUE, source |-> cur.source, t |-> cur.t, ok |-> FALSE,
                                    suffixed |-> FALSE, final |-> cur.path, run |-> run]]
                            /\ last' = [NoLast EXCEPT !.op = "rename", !.f = f,
                                          !.from = cur.path,
                                          !.to = IF fault = "rand" THEN cur.newBaseName ELSE final,
                                          !.err = fault, !.was = fs[f],
                                          !.logs = {IF fault = "rand" THEN "unique-path"
                                                    ELSE "rename"}]
                            /\ UNCHANGED <<fs, lost>>
    /\ UNCHANGED <<cfg, Local, args, result, exiftoolPath, run>>

\* the exit statuses of the tool: success, error, "minor warnings", error
ExitCodes == {0, 1, 2, 3}

\* lines 267-271 with enrichMetadata: one conditional write call
Enrich ==
    /\ pc = "enrich"
    /\ \E patch \in {enrichArgs(cur.t, targetLocation, isImagePath(cur.finalNewPath))} :
       LET f == Lookup(cur.finalNewPath)
       IN IF exiftoolPath = "" \/ Len(patch) = 0
          THEN /\ last' = [NoLast EXCEPT !.op = "enrich", !.f = f,
                             !.from = cur.finalNewPath, !.before = fs[f].meta,
                             !.was = fs[f]]
               /\ UNCHANGED <<fs, cur, env>>
          ELSE \E exit \in ExitCodes :
                 \E after \in {IF exit \in {0, 2} THEN applyPatch(fs[f].meta, patch)
                               ELSE fs[f].meta} :
                    /\ exit # 0 => env > 0
                    /\ env' = IF exit = 0 THEN env ELSE env - 1
                    /\ fs' = [fs EXCEPT ![f].meta = after,
                                        ![f].mtime = IF after # fs[f].meta THEN Now ELSE @,
                                        ![f].atime = IF after # fs[f].meta THEN Now ELSE @]
                    /\ cur' = [cur EXCEPT !.enrichErr = enrichFailed(exit)]
                    /\ last' = [NoLast EXCEPT !.op = "enrich", !.f = f,
                                  !.from = cur.finalNewPath, !.invoked = TRUE,
                                  !.patch = patch, !.before = fs[f].meta,
                                  !.was = fs[f], !.exit = exit,
                                  !.err = IF enrichFailed(exit) THEN "write" ELSE "",
                                  !.logs = IF enrichFailed(exit) THEN {"enrich"} ELSE {}]
    /\ pc' = "sync"
    /\ UNCHANGED <<cfg, Local, args, result, exiftoolPath, lost, queue, run, hist>>

\* lines 273-277 with syncFileTimestamp: os.Chtimes(path, t, t)
Sync ==
    /\ pc = "sync"
    /\ LET f == Lookup(cur.finalNewPath)
       IN \E fail \in BOOLEAN :
            /\ fail => env > 0
            /\ env' = IF fail THEN env - 1 ELSE env
            /\ fs' = IF fail THEN fs ELSE [fs EXCEPT ![f] = syncFileTimestamp(@, cur.t)]
            /\ hist' = [hist EXCEPT ![f] =
                   [seen |-> TRUE, source |-> cur.source, t |-> cur.t,
                    ok |-> ~fail /\ ~cur.enrichErr,
                    suffixed |-> cur.finalNewPath \notin {cur.path, cur.newBaseName},
                    final |-> cur.finalNewPath, run |-> run]]
            /\ last' = [NoLast EXCEPT !.op = "sync", !.f = f, !.from = cur.finalNewPath,
                          !.err = IF fail THEN "sync" ELSE "", !.was = fs[f],
                          !.logs = IF fail THEN {"sync"} ELSE {}]
            /\ pc' = pcAfter(walkFuncResult(FALSE, fail \/ cur.enrichErr))
    /\ queue' = Tail(queue)
    /\ cur' = NoCur
    /\ UNCHANGED <<cfg, Local, args, result, exiftoolPath, lost, run>>

\* another program changes one timestamp field of the file in progress after
\* its time was resolved and before the write
ExternalEdit ==
    /\ pc = "enrich"
    /\ env > 0
    /\ LET path == cur.finalNewPath
           f == Lookup(path)
       IN \E G \in EditGroups(isImagePath(path)) :
            LET after == [fld \in MetaFields |->
                            IF fld \in G /\ fs[f].meta[fld] \in {<< >>, Sentinel}
                            THEN EditValue(fld) ELSE fs[f].meta[fld]]
            IN /\ after # fs[f].meta
               /\ fs' = [fs EXCEPT ![f].meta = after]
               /\ last' = [NoLast EXCEPT !.op = "edit", !.f = f, !.from = path,
                             !.before = fs[f].meta, !.was = fs[f]]
    /\ env' = env - 1
    /\ UNCHANGED <<cfg, Local, args, result, exiftoolPath, lost, queue, run, pc, cur, hist>>

\* WalkDir cannot read an entry and calls the callback with the error, which
\* the callback logs and returns (line 190): the enumeration ends
WalkError ==
    /\ pc = "walk" /\ queue # << >>
    /\ env > 0
    /\ env' = env - 1
    /\ pc' = pcAfter(walkFuncResult(TRUE, FALSE))
    /\ last' = [NoLast EXCEPT !.op = "walkerr", !.from = Head(queue), !.err = "walk",
                  !.logs = {"walk"}]
    /\ UNCHANGED <<cfg, Local, args, result, exiftoolPath, fs, lost, queue, run, cur, hist>>

\* the program is started again on the same directory (explored after runs
\* in which the environment injected nothing)
NextRun ==
    /\ pc = "walk" /\ queue = << >>
    /\ run < MaxRuns
    /\ env = MaxEnv
    /\ run' = run + 1
    /\ queue' = Listing
    /\ last' = [NoLast EXCEPT !.op = "run"]
    /\ UNCHANGED <<cfg, Local, args, result, exiftoolPath, fs, lost, pc, cur, hist, env>>

Next ==
    SkipEntry \/ Resolve \/ Rename \/ Enrich \/ Sync \/ ExternalEdit \/ WalkError \/ NextRun

Spec == Init /\ [][Next]_vars

(***************************************************************************)
(* main before the walk (src/main.go 85-187) and the prompts               *)
(* (src/ui/prompts.go 139-165)                                             *)
(***************************************************************************)
\* strings.TrimSpace(input) == "yes"
RequestConfirmation(input) == TrimSpace(input) = Runes("yes")

\* strings.TrimSpace(input) == phrase
RequestCriticalConfirmation(phrase, input) == TrimSpace(input) = phrase

\* strings.ToLower(strings.TrimSpace(input)) == "y"
RequestContinueOnFailure(input) == ToLower(TrimSpace(input)) = Runes("y")

\* --yes lets the run go on without the tool
proceedWithoutToolAutoConfirmed(autoConfirm, input) ==
    autoConfirm \/ RequestCriticalConfirmation(Runes("Please continue anyway!"), input)

\* lines 134-139: without the tool the run goes on only after the phrase
proceedWithoutTool(autoConfirm, input) ==
    RequestCriticalConfirmation(Runes("Please continue anyway!"), input)

\* --yes goes on after a failed backup
afterBackupFailureAutoContinues(autoConfirm, input) ==
    IF autoConfirm \/ RequestContinueOnFailure(input) THEN "continue" ELSE "exit"

\* lines 171-178: a failed backup is fatal with --yes, else the user decides
afterBackupFailure(autoConfirm, input) ==
    IF autoConfirm THEN "fatal"
    ELSE IF RequestContinueOnFailure(input) THEN "continue" ELSE "exit"

\* what the user may type at the three prompts (the empty line is end of
\* input)
CriticalInputs ==
    {Runes("Please continue anyway!\n"), Runes("please continue anyway!\n"), Runes("Please continue anyway\n"),
     Runes("Please continue anyway!\f\n"),
     NoBreakSpace \o Runes("Please continue anyway!") \o IdeographicSpace,
     Runes("yes\n"), Runes("\n"), << >>}
ConfirmInputs ==
    {Runes("yes\n"), Runes(" yes \n"), Runes("yes\f\n"),
     NoBreakSpace \o Runes("yes") \o NextLine \o Runes("\n"),
     Runes("yes") \o IdeographicSpace \o Runes("\n"),
     Runes("yes") \o EAcute \o Runes("\n"),
     Runes("y\n"), Runes("YES\n"), Runes("no\n"), Runes("\n"), << >>}
ContinueInputs ==
    {Runes("y\n"), Runes("Y\n"), Runes("Y\f\n"),
     Runes("y") \o VerticalTab \o Runes("\n"),
     EnQuad \o Runes("Y") \o LineSeparator \o Runes("\n"),
     Runes("yes\n"), Runes("n\n"), Runes("\n"), << >>}

\* what lines 142-154 find at -dir: no directory given at all, a relative
\* path in a working directory that filepath.Abs cannot name, and for
\* os.Stat a directory, a file that is not one, nothing (os.IsNotExist), or
\* a path it fails on with another error (a component that is not a
\* directory, no search permission, a name too long)
TargetDirs == {"unset", "abs", "dir", "file", "missing", "error"}

\* the command lines: -no-backup, --yes, --exiftool-path and what -dir names
CommandLines ==
    [fn : {"main"}, noBackup : BOOLEAN, autoConfirm : BOOLEAN,
     exiftoolOverridePath : {"", "/opt/exiftool"}, targetDir : TargetDirs]

\* how far main has come: what was typed at each prompt ("-": not asked),
\* the backup's outcome and the exit status (-1: running)
NoProgress ==
    [fn |-> "main", critical |-> Runes("-"), confirm |-> Runes("-"), backup |-> "-",
     cont |-> Runes("-"), exit |-> -1]

\* the directories main is started on here
MainDirectories ==
    {{f \in FileIds : Catalogue[f].name \in {Runes("a.mkv"), Runes("notes.txt")}},
     {f \in FileIds : Catalogue[f].name = Runes("p.jpg")}}

\* the values target_timezone has in the configurations main is started
\* with: offsets with and without colon, zone names, the host's own zone,
\* a file without the key, and two texts that are neither name nor offset
Timezones ==
    {Runes("+08:00"), Runes("+0800"), Runes("-05:00"), Runes("Asia/Tokyo"), Runes("Local"),
     << >>, Runes("8"), Runes("+8")}

InitMain ==
    /\ \E tz \in Timezones : cfg = [DefaultConfig EXCEPT !.TargetTimezone = tz]
    /\ Local \in LocalZones
    /\ exiftoolPath = ""
    /\ \E S \in MainDirectories :
          /\ fs = [f \in S |-> StartFile(f)]
          /\ hist = [f \in S |-> NoHist]
    /\ queue = << >> /\ lost = {} /\ run = 1 /\ pc = "zone"
    /\ cur = NoCur /\ env = 0 /\ last = NoLast
    /\ args \in CommandLines
    /\ result = NoProgress

\* lines 110-112: the target zone, or the fatal error of a target_timezone
\* that is neither a zone name nor an offset
ResolveZone ==
    /\ pc = "zone"
    /\ IF parseTimeZone(cfg.TargetTimezone, Local).err
       THEN pc' = "exited" /\ result' = [result EXCEPT !.exit = 1]
       ELSE pc' = "start" /\ result' = result
    /\ last' = [NoLast EXCEPT !.op = "zone"]
    /\ UNCHANGED <<cfg, Local, args, exiftoolPath, fs, lost, queue, run, cur, hist, env>>

\* lines 116-139: locate the tool; without it, warn and ask for the phrase
CheckExiftool ==
    /\ pc = "start"
    /\ \E statOk \in BOOLEAN, inSystem \in BOOLEAN :
         IF args.exiftoolOverridePath # ""
         THEN IF statOk
              THEN /\ exiftoolPath' = args.exiftoolOverridePath
                   /\ pc' = "plan" /\ result' = result
              ELSE /\ pc' = "exited" /\ result' = [result EXCEPT !.exit = 1]
                   /\ exiftoolPath' = exiftoolPath
         ELSE IF inSystem
              THEN /\ exiftoolPath' = "/usr/bin/exiftool"
                   /\ pc' = "plan" /\ result' = result
              ELSE \E input \in CriticalInputs :
                     /\ exiftoolPath' = exiftoolPath
                     /\ IF proceedWithoutTool(args.autoConfirm, input)
                        THEN /\ pc' = "plan"
                             /\ result' = [result EXCEPT !.critical = input]
                        ELSE /\ pc' = "exited"
                             /\ result' = [result EXCEPT !.critical = input, !.exit = 1]
    /\ last' = [NoLast EXCEPT !.op = "check"]
    /\ UNCHANGED <<cfg, Local, args, fs, lost, queue, run, cur, hist, env>>

\* lines 142-166: the target directory, the plan and the confirmation.
\* No directory given (146) ends in os.Exit(1); filepath.Abs failing (152),
\* a path that does not exist and one that is not a directory (154) end in
\* log.Fatalf, exit status 1. On any other error of os.Stat,
\* os.IsNotExist(err) is false and info is nil, so info.IsDir() panics: the
\* program ends with exit status 2
Confirm ==
    /\ pc = "plan"
    /\ IF args.targetDir \in {"unset", "abs", "missing", "file"}
       THEN pc' = "exited" /\ result' = [result EXCEPT !.exit = 1]
       ELSE IF args.targetDir = "error"
       THEN pc' = "exited" /\ result' = [result EXCEPT !.exit = 2]
       ELSE IF args.autoConfirm
       THEN pc' = "backup" /\ result' = result
       ELSE \E input \in ConfirmInputs :
              IF RequestConfirmation(input)
              THEN pc' = "backup" /\ result' = [result EXCEPT !.confirm = input]
              ELSE pc' = "exited" /\ result' = [result EXCEPT !.confirm = input, !.exit = 0]
    /\ last' = [NoLast EXCEPT !.op = "confirm"]
    /\ UNCHANGED <<cfg, Local, args, exiftoolPath, fs, lost, queue, run, cur, hist, env>>

\* createBackup (465-492) writes the archive and, in filepath.Walk, opens
\* and reads every regular file of the target (483-489). It renames and
\* writes no file of the target, but where access times are kept a read
\* moves the file's atime to the time of the read. read: the files whose
\* atime the call moved: every file, some of them (the backup failed before
\* it came to the others, or the mount or a file's attributes keep the atime
\* as it is), or none
createBackup(files, read) ==
    [f \in DOMAIN files |->
        IF f \in read THEN [files[f] EXCEPT !.atime = Now] ELSE files[f]]

\* lines 168-189: the backup, then WalkDir lists the directory. The files
\* are as createBackup leaves them whether it failed or not
Backup ==
    /\ pc = "backup"
    /\ IF args.noBackup
       THEN /\ pc' = "walk" /\ queue' = Listing /\ fs' = fs
            /\ result' = [result EXCEPT !.backup = "skipped"]
       ELSE \E failed \in BOOLEAN, read \in SUBSET DOMAIN fs :
              /\ fs' = createBackup(fs, read)
              /\ IF ~failed
                 THEN /\ pc' = "walk" /\ queue' = Listing
                      /\ result' = [result EXCEPT !.backup = "ok"]
                 ELSE \E input \in (IF args.autoConfirm THEN {Runes("-")}
                                                        ELSE ContinueInputs) :
                        IF afterBackupFailure(args.autoConfirm, input) = "continue"
                        THEN /\ pc' = "walk" /\ queue' = Listing
                             /\ result' = [result EXCEPT !.backup = "failed",
                                                         !.cont = input]
                        ELSE /\ pc' = "exited" /\ queue' = queue
                             /\ result' = [result EXCEPT !.backup = "failed",
                                                         !.cont = input, !.exit = 1]
    /\ last' = [NoLast EXCEPT !.op = "backup"]
    /\ UNCHANGED <<cfg, Local, args, exiftoolPath, lost, run, cur, hist, env>>

NextMain ==
    ResolveZone \/ CheckExiftool \/ Confirm \/ Backup \/ SkipEntry \/ Resolve \/ Rename \/ Enrich \/ Sync

SpecMain == InitMain /\ [][NextMain]_vars

(***************************************************************************)
(* The walk with -depth (src/main.go 187-216)                              *)
(***************************************************************************)
\* the largest -depth value given (the smallest is -1)
MaxDepth == 3

\* the target directory, absolute and cleaned
cleanAbsPath == Runes("/m")

\* filepath.Base: the part after the last separator
Base(path) ==
    IF ContainsChar(path, Rune("/"))
    THEN LET i == CHOOSE k \in 1..Len(path) :
                    /\ Char(path, k) = Rune("/")
                    /\ \A j \in (k + 1)..Len(path) : Char(path, j) # Rune("/")
         IN SubSeq(path, i + 1, Len(path))
    ELSE path

\* filepath.Rel(base, path) for a path at or below base
Rel(base, path) ==
    IF path = base THEN Runes(".") ELSE SubSeq(path, Len(base) + 2, Len(path))

\* strings.Count(s, c) for a one-character c
RECURSIVE Count(_, _)
Count(s, c) ==
    IF s = << >> THEN 0
    ELSE (IF Char(s, 1) = c THEN 1 ELSE 0) + Count(SubSeq(s, 2, Len(s)), c)

\* the separators alone are counted
currentDepthOfSeparators(relPath) ==
    IF relPath # Runes(".") THEN Count(relPath, Rune("/")) ELSE 0

\* lines 194-197
currentDepth(relPath) ==
    IF relPath # Runes(".") THEN Count(relPath, Rune("/")) + 1 ELSE 0

\* what the callback returns for an entry before it looks at the extension
\* (lines 191-202): "skipdir", "nil" for a directory it enters, "file"
depthCheck(maxDepth, path, isDir) ==
    IF maxDepth # -1 /\ isDir /\ currentDepth(Rel(cleanAbsPath, path)) > maxDepth
    THEN "skipdir"
    ELSE IF isDir THEN "nil" ELSE "file"

\* directory trees in the order WalkDir visits them (each directory's
\* entries sorted by name); level: how many directories below the target
\* the entry's directory is; media: the entry is a file with a supported
\* extension
Entry(path, isDir, level, media) ==
    [path |-> path, isDir |-> isDir, level |-> level, media |-> media]

Trees ==
    << << Entry(Runes("/m"), TRUE, 0, FALSE),
          Entry(Runes("/m/a.jpg"), FALSE, 0, TRUE),
          Entry(Runes("/m/notes.txt"), FALSE, 0, FALSE),
          Entry(Runes("/m/sub"), TRUE, 0, FALSE),
          Entry(Runes("/m/sub/b.MP4"), FALSE, 1, TRUE),
          Entry(Runes("/m/sub/deep"), TRUE, 1, FALSE),
          Entry(Runes("/m/sub/deep/c.png"), FALSE, 2, TRUE),
          Entry(Runes("/m/sub/deep/er"), TRUE, 2, FALSE),
          Entry(Runes("/m/sub/deep/er/d.mov"), FALSE, 3, TRUE),
          Entry(Runes("/m/z.mkv"), FALSE, 0, TRUE) >>,
       << Entry(Runes("/m"), TRUE, 0, FALSE),
          Entry(Runes("/m/clips.mp4"), TRUE, 0, FALSE),
          Entry(Runes("/m/clips.mp4/x.jpg"), FALSE, 1, TRUE),
          Entry(Runes("/m/p.jpg"), FALSE, 0, TRUE) >>,
       << Entry(Runes("/m"), TRUE, 0, FALSE),
          Entry(Runes("/m/only"), TRUE, 0, FALSE),
          Entry(Runes("/m/only/deeper"), TRUE, 1, FALSE),
          Entry(Runes("/m/only/deeper/q.gif"), FALSE, 2, TRUE),
          Entry(Runes("/m/only/deeper/readme"), FALSE, 2, FALSE) >>,
       << Entry(Runes("/m"), TRUE, 0, FALSE),
          Entry(Runes("/m/a"), TRUE, 0, FALSE),
          Entry(Runes("/m/a/b"), TRUE, 1, FALSE),
          Entry(Runes("/m/a/b/c"), TRUE, 2, FALSE),
          Entry(Runes("/m/a/b/c/d"), TRUE, 3, FALSE),
          Entry(Runes("/m/a/b/c/d/e.jpg"), FALSE, 4, TRUE),
          Entry(Runes("/m/a/f.mp4"), FALSE, 1, TRUE) >> >>

\* the entries WalkDir still has to visit after the callback returned
\* SkipDir for the directory dir: those not below it
RECURSIVE SkipDir(_, _)
SkipDir(entries, dir) ==
    IF entries = << >> THEN << >>
    ELSE IF HasPrefix(Head(entries).path, dir \o Runes("/")) THEN SkipDir(Tail(entries), dir)
    ELSE entries

InitWalk ==
    /\ cfg = DefaultConfig /\ Local = UTC
    /\ exiftoolPath = "/usr/bin/exiftool"
    /\ fs = << >> /\ lost = {} /\ run = 1 /\ pc = "walk"
    /\ cur = NoCur /\ hist = << >> /\ env = 0 /\ last = NoLast
    /\ \E tree \in 1..Len(Trees), maxDepth \in -1..MaxDepth :
          /\ args = [fn |-> "WalkDir", tree |-> tree, maxDepth |-> maxDepth]
          /\ queue = Trees[tree]
    /\ result = [fn |-> "WalkDir", processed |-> << >>]

\* one call of the callback (lines 189-215); processFile is recorded by the
\* path it is given
walkFunc ==
    /\ pc = "walk" /\ args.fn = "WalkDir" /\ queue # << >>
    /\ LET d == Head(queue)
           path == d.path
           step == depthCheck(args.maxDepth, path, d.isDir)
       IN /\ queue' = IF step = "skipdir" THEN SkipDir(Tail(queue), path) ELSE Tail(queue)
          /\ result' = IF step = "file"
                          /\ (isImagePath(Base(path)) \/ isVideoPath(Base(path)))
                       THEN [result EXCEPT !.processed = Append(@, path)]
                       ELSE result
          /\ last' = [NoLast EXCEPT !.op = "callback", !.from = path,
                        !.err = IF step = "skipdir" THEN "skipdir" ELSE ""]
    /\ UNCHANGED <<cfg, Local, args, exiftoolPath, fs, lost, run, pc, cur, hist, env>>

NextWalk == walkFunc

SpecWalk == InitWalk /\ [][NextWalk]_vars

(***************************************************************************)
(* Single calls of getAuthoritativeTime and generateNewFilename            *)
(***************************************************************************)
\* what reading a tag may give, each with the reading a person makes of it:
\* good when the text denotes a time, wall the seconds since 1970 of its
\* date and clock digits taken alone, ns its fraction, zoned and zoff the
\* offset it names, in minutes
ReadPool ==
    << [err |-> TRUE,  out |-> << >>,
        good |-> FALSE, wall |-> 0, ns |-> 0, zoned |-> FALSE, zoff |-> 0],
       [err |-> FALSE, out |-> Runes("\n"),
        good |-> FALSE, wall |-> 0, ns |-> 0, zoned |-> FALSE, zoff |-> 0],
       [err |-> FALSE, out |-> Runes("0000:00:00 00:00:00\n"),
        good |-> FALSE, wall |-> 0, ns |-> 0, zoned |-> FALSE, zoff |-> 0],
       [err |-> FALSE, out |-> Runes("2023-08-15T14:30:05\n"),
        good |-> FALSE, wall |-> 0, ns |-> 0, zoned |-> FALSE, zoff |-> 0],
       [err |-> FALSE, out |-> Runes("2023:08:15 14:30:05\n"),
        good |-> TRUE, wall |-> 1692109805, ns |-> 0, zoned |-> FALSE, zoff |-> 0],
       [err |-> FALSE, out |-> Runes("2023:08:15 14:30:05.750\n"),
        good |-> TRUE, wall |-> 1692109805, ns |-> 750000000, zoned |-> FALSE, zoff |-> 0],
       [err |-> FALSE, out |-> Runes("2023:08:15 14:30:05+08:00\n"),
        good |-> TRUE, wall |-> 1692109805, ns |-> 0, zoned |-> TRUE, zoff |-> 480],
       [err |-> FALSE, out |-> Runes("2023:08:15 14:30:05.750-05:00\n"),
        good |-> TRUE, wall |-> 1692109805, ns |-> 750000000, zoned |-> TRUE, zoff |-> -300],
       [err |-> FALSE, out |-> Runes("2023:08:15 06:30:05Z\n"),
        good |-> TRUE, wall |-> 1692081005, ns |-> 0, zoned |-> TRUE, zoff |-> 0],
       [err |-> FALSE, out |-> Runes("2023:08:15  14:30:05\n"),
        good |-> TRUE, wall |-> 1692109805, ns |-> 0, zoned |-> FALSE, zoff |-> 0],
       [err |-> FALSE, out |-> Runes("\f2023:08:15   14:30:05.750-05:00\r\n"),
        good |-> TRUE, wall |-> 1692109805, ns |-> 750000000, zoned |-> TRUE,
        zoff |-> -300],
       [err |-> FALSE,
        out |-> NoBreakSpace \o Runes("2023:08:15 14:30:05") \o LineSeparator
                    \o Runes("\n"),
        good |-> TRUE, wall |-> 1692109805, ns |-> 0, zoned |-> FALSE, zoff |-> 0],
       [err |-> FALSE, out |-> Runes("2023:08:15 14:30:05") \o EAcute \o Runes("\n"),
        good |-> FALSE, wall |-> 0, ns |-> 0, zoned |-> FALSE, zoff |-> 0] >>

\* the files, target zones and modification times of the calls; aug is the
\* offset in minutes a person reads off the zone's rules for August 2023
CallPaths == {Runes("a.jpg"), Runes("B.JPG"), Runes("x.mp4")}
CallZones ==
    {[loc |-> FixedZone(480), aug |-> 480], [loc |-> FixedZone(-300), aug |-> -300],
     [loc |-> Eastern, aug |-> -240], [loc |-> Perth, aug |-> 480]}
CallMtimes == {Shot(750000000)}

\* one call of getAuthoritativeTime: pick gives each candidate tag its read
CallGetAuthoritativeTime ==
    /\ args = NoArgs
    /\ \E path \in CallPaths, zone \in CallZones, statErr \in BOOLEAN,
          mtime \in CallMtimes :
         \E pick \in [Range(timeTagsOf(extIn(imageExtMap, path))) -> 1..Len(ReadPool)] :
            /\ args' = [fn |-> "getAuthoritativeTime", path |-> path,
                        zone |-> zone, pick |-> pick,
                        statErr |-> statErr, mtime |-> mtime]
            /\ result' = [fn |-> "getAuthoritativeTime",
                          r |-> getAuthoritativeTime(path, exiftoolPath, imageExtMap,
                                   zone.loc,
                                   [tg \in DOMAIN pick |->
                                       [err |-> ReadPool[pick[tg]].err,
                                        out |-> ReadPool[pick[tg]].out]],
                                   [err |-> statErr, mtime |-> mtime])]
    /\ UNCHANGED <<cfg, Local, exiftoolPath, fs, lost, queue, run, pc, cur, hist, env, last>>

\* instants in a zone, each with the date-time digits and the millisecond
\* digits a person reads off it there (none when the milliseconds round to 0)
NamePool ==
    << [t |-> Shot(0), zone |-> FixedZone(480),
        base |-> Runes("20230815_143005"), ms |-> << >>],
       [t |-> Shot(400000), zone |-> FixedZone(480),
        base |-> Runes("20230815_143005"), ms |-> << >>],
       [t |-> Shot(500000), zone |-> FixedZone(480),
        base |-> Runes("20230815_143005"), ms |-> Runes("001")],
       [t |-> Shot(7000000), zone |-> FixedZone(480),
        base |-> Runes("20230815_143005"), ms |-> Runes("007")],
       [t |-> Shot(750000000), zone |-> FixedZone(480),
        base |-> Runes("20230815_143005"), ms |-> Runes("750")],
       [t |-> Shot(999600000), zone |-> FixedZone(480),
        base |-> Runes("20230815_143005"), ms |-> Runes("999")],
       [t |-> [s |-> 1692115200, ns |-> 0], zone |-> FixedZone(480),
        base |-> Runes("20230816_000000"), ms |-> << >>],
       [t |-> [s |-> 1704067199, ns |-> 42000000], zone |-> FixedZone(480),
        base |-> Runes("20240101_075959"), ms |-> Runes("042")],
       [t |-> [s |-> 1709208000, ns |-> 0], zone |-> FixedZone(480),
        base |-> Runes("20240229_200000"), ms |-> << >>],
       [t |-> Summer, zone |-> Perth,
        base |-> Runes("20070115_120000"), ms |-> << >>],
       [t |-> Shot(750000000), zone |-> Eastern,
        base |-> Runes("20230815_023005"), ms |-> Runes("750")] >>

\* original paths, each with the extension a person reads off it
PathPool ==
    << [path |-> Runes("a.jpg"), ext |-> Runes(".jpg")], [path |-> Runes("B.JPG"), ext |-> Runes(".JPG")],
       [path |-> Runes("x.mp4"), ext |-> Runes(".mp4")], [path |-> Runes("a.b.png"), ext |-> Runes(".png")],
       [path |-> Runes("noext"), ext |-> << >>] >>

\* one call of generateNewFilename on an instant expressed in a zone
\* (processFile line 232: authoritativeTime.In(targetLocation))
CallGenerateNewFilename ==
    /\ args = NoArgs
    /\ \E i \in 1..Len(NamePool), j \in 1..Len(PathPool), prefix \in {Runes("IMG"), Runes("VID")},
          isAuthoritative \in BOOLEAN :
         /\ args' = [fn |-> "generateNewFilename", i |-> i, j |-> j, prefix |-> prefix,
                     isAuthoritative |-> isAuthoritative]
         /\ result' = [fn |-> "generateNewFilename",
                       name |-> generateNewFilename(
                                   WallClock(NamePool[i].t, NamePool[i].zone), prefix,
                                   PathPool[j].path, isAuthoritative)]
    /\ UNCHANGED <<cfg, Local, exiftoolPath, fs, lost, queue, run, pc, cur, hist, env, last>>

\* nanosecond readings within the second 2023-08-15T14:30:05+08:00, each with
\* the millisecond digits a person rounds it to, half up and never past 999
RoundPool ==
    << [ns |-> 0,         ms |-> Runes("000")], [ns |-> 499999,    ms |-> Runes("000")],
       [ns |-> 500000,    ms |-> Runes("001")], [ns |-> 1499999,   ms |-> Runes("001")],
       [ns |-> 1500000,   ms |-> Runes("002")], [ns |-> 49500000,  ms |-> Runes("050")],
       [ns |-> 750000000, ms |-> Runes("750")], [ns |-> 998500000, ms |-> Runes("999")],
       [ns |-> 999499999, ms |-> Runes("999")], [ns |-> 999500000, ms |-> Runes("999")],
       [ns |-> 999600000, ms |-> Runes("999")], [ns |-> 999999999, ms |-> Runes("999")] >>

\* the value of the triple enrichMetadata builds for a tag, "" without one
ArgValue(patch, tag) ==
    IF \E k \in 1..Len(patch) : patch[k].tag = tag
    THEN patch[CHOOSE k \in 1..Len(patch) : patch[k].tag = tag].value
    ELSE << >>

\* the name and the triples processFile derives from one resolved instant
\* (lines 232-267): the resolver's isAuthoritative is false without the tool
\* (line 364), the prefix is the one the walk chose (205-210)
CallRounding ==
    /\ args = NoArgs
    /\ \E i \in 1..Len(RoundPool), path \in {Runes("a.jpg"), Runes("x.mp4")},
          isAuthoritative \in (IF exiftoolPath = "" THEN {FALSE} ELSE BOOLEAN) :
         \E t \in {Shot(RoundPool[i].ns)}, loc \in {targetLocation} :
         \E w \in {WallClock(t, loc)},
            prefix \in {IF extIn(imageExtMap, path) THEN cfg.ImagePrefix
                        ELSE cfg.VideoPrefix} :
         \E name \in {generateNewFilename(w, prefix, path,
                           promote(isAuthoritative, exiftoolPath, w.ns))} :
         \E patch \in {IF exiftoolPath = "" THEN << >>
                        ELSE enrichArgs(t, loc, extIn(imageExtMap, name))} :
            /\ args' = [fn |-> "rounding", i |-> i, path |-> path,
                        isAuthoritative |-> isAuthoritative]
            /\ result' = [fn |-> "rounding",
                          name |-> name,
                          date |-> ArgValue(patch, "DateTimeOriginal"),
                          videoDate |-> ArgValue(patch, "QuickTime:CreateDate"),
                          subsec |-> [tg \in Range(ImageSubSecFields) |->
                                         ArgValue(patch, tg)]]
    /\ UNCHANGED <<cfg, Local, exiftoolPath, fs, lost, queue, run, pc, cur, hist, env, last>>

\* instants and target zones, each with the texts a person writes for it:
\* the wall clock in the zone, the wall clock in UTC, the zone's offset and
\* the rounded milliseconds ("" when they round to zero)
EnrichPool ==
    << [t |-> Shot(0), zone |-> FixedZone(480), wall |-> Runes("2023:08:15 14:30:05"),
        utc |-> Runes("2023:08:15 06:30:05"), off |-> Runes("+08:00"), ms |-> << >>],
       [t |-> Shot(400000), zone |-> FixedZone(480), wall |-> Runes("2023:08:15 14:30:05"),
        utc |-> Runes("2023:08:15 06:30:05"), off |-> Runes("+08:00"), ms |-> << >>],
       [t |-> Shot(500000), zone |-> FixedZone(480), wall |-> Runes("2023:08:15 14:30:05"),
        utc |-> Runes("2023:08:15 06:30:05"), off |-> Runes("+08:00"), ms |-> Runes("001")],
       [t |-> Shot(750000000), zone |-> FixedZone(480), wall |-> Runes("2023:08:15 14:30:05"),
        utc |-> Runes("2023:08:15 06:30:05"), off |-> Runes("+08:00"), ms |-> Runes("750")],
       [t |-> Shot(999600000), zone |-> FixedZone(480), wall |-> Runes("2023:08:15 14:30:05"),
        utc |-> Runes("2023:08:15 06:30:05"), off |-> Runes("+08:00"), ms |-> Runes("999")],
       [t |-> Shot(0), zone |-> FixedZone(-300), wall |-> Runes("2023:08:15 01:30:05"),
        utc |-> Runes("2023:08:15 06:30:05"), off |-> Runes("-05:00"), ms |-> << >>],
       [t |-> Shot(250000000), zone |-> FixedZone(330), wall |-> Runes("2023:08:15 12:00:05"),
        utc |-> Runes("2023:08:15 06:30:05"), off |-> Runes("+05:30"), ms |-> Runes("250")],
       [t |-> Shot(0), zone |-> FixedZone(0), wall |-> Runes("2023:08:15 06:30:05"),
        utc |-> Runes("2023:08:15 06:30:05"), off |-> Runes("+00:00"), ms |-> << >>],
       [t |-> [s |-> 1704067199, ns |-> 42000000], zone |-> FixedZone(480),
        wall |-> Runes("2024:01:01 07:59:59"), utc |-> Runes("2023:12:31 23:59:59"),
        off |-> Runes("+08:00"), ms |-> Runes("042")],
       [t |-> Shot(0), zone |-> Eastern, wall |-> Runes("2023:08:15 02:30:05"),
        utc |-> Runes("2023:08:15 06:30:05"), off |-> Runes("-04:00"), ms |-> << >>],
       [t |-> [s |-> 1700000000, ns |-> 0], zone |-> Eastern,
        wall |-> Runes("2023:11:14 17:13:20"), utc |-> Runes("2023:11:14 22:13:20"),
        off |-> Runes("-05:00"), ms |-> << >>],
       [t |-> Summer, zone |-> Perth, wall |-> Runes("2007:01:15 12:00:00"),
        utc |-> Runes("2007:01:15 03:00:00"), off |-> Runes("+09:00"), ms |-> << >>] >>

\* one call of enrichMetadata up to the argument list (lines 369-421); t is
\* in the target zone (processFile line 232)
CallEnrichMetadata ==
    /\ args = NoArgs
    /\ \E i \in 1..Len(EnrichPool), path \in {Runes("a.jpg"), Runes("B.JPG"), Runes("x.mp4"), Runes("y.MOV")} :
         /\ args' = [fn |-> "enrichMetadata", i |-> i, path |-> path]
         /\ result' = [fn |-> "enrichMetadata",
                       invoked |-> exiftoolPath # "",
                       patch |-> IF exiftoolPath = "" THEN << >>
                                 ELSE enrichArgs(EnrichPool[i].t, EnrichPool[i].zone,
                                                 extIn(imageExtMap, path))]
    /\ UNCHANGED <<cfg, Local, exiftoolPath, fs, lost, queue, run, pc, cur, hist, env, last>>

\* ideal paths, each with the part before the extension and the extension
UniquePool ==
    << [path |-> Runes("IMG_20230815_143005.jpg"), stem |-> Runes("IMG_20230815_143005"), ext |-> Runes(".jpg")],
       [path |-> Runes("VID_20230815_143005_750.MP4"), stem |-> Runes("VID_20230815_143005_750"),
        ext |-> Runes(".MP4")],
       [path |-> Runes("IMG_20230815_143005_[007].png"), stem |-> Runes("IMG_20230815_143005_[007]"),
        ext |-> Runes(".png")],
       [path |-> Runes("IMG_20230815_143005"), stem |-> Runes("IMG_20230815_143005"), ext |-> << >>] >>

\* draws of rand.Int(rand.Reader, 1000), each with its three digits
DrawPool ==
    << [n |-> 0, digits |-> Runes("000")], [n |-> 7, digits |-> Runes("007")],
       [n |-> 42, digits |-> Runes("042")], [n |-> 100, digits |-> Runes("100")],
       [n |-> 999, digits |-> Runes("999")] >>

\* one call of getUniquePath: exists is what os.Stat answers for the ideal
\* path; suffixedExists is whether the suffixed path is taken too, which the
\* function never asks
CallGetUniquePath ==
    /\ args = NoArgs
    /\ \E i \in 1..Len(UniquePool), exists \in BOOLEAN, suffixedExists \in BOOLEAN,
          d \in 1..Len(DrawPool) :
         /\ args' = [fn |-> "getUniquePath", i |-> i, exists |-> exists,
                     suffixedExists |-> suffixedExists, d |-> d]
         /\ result' = [fn |-> "getUniquePath",
                       path |-> getUniquePath(UniquePool[i].path, exists, DrawPool[d].n)]
    /\ UNCHANGED <<cfg, Local, exiftoolPath, fs, lost, queue, run, pc, cur, hist, env, last>>

\* current names of files, each with its extension
TwinPool ==
    << [path |-> Runes("a.jpg"), ext |-> Runes(".jpg")],
       [path |-> Runes("IMG_20200101_000000_[123].jpg"), ext |-> Runes(".jpg")],
       [path |-> Runes("b.c.jpg"), ext |-> Runes(".jpg")],
       [path |-> Runes("B.JPG"), ext |-> Runes(".JPG")],
       [path |-> Runes("x.mp4"), ext |-> Runes(".mp4")] >>

\* instants of NamePool: two within the same millisecond, one with 750 ms,
\* one in another year
TwinTimes == {1, 2, 5, 8}

\* generateNewFilename called for two files (or in two runs)
CallGenerateNewFilenameTwice ==
    /\ args = NoArgs
    /\ \E i1 \in TwinTimes, i2 \in TwinTimes, j1 \in 1..Len(TwinPool),
          j2 \in 1..Len(TwinPool), p1 \in {Runes("IMG"), Runes("VID")}, p2 \in {Runes("IMG"), Runes("VID")},
          a1 \in BOOLEAN, a2 \in BOOLEAN :
         /\ args' = [fn |-> "generateNewFilenameTwice",
                     one |-> [i |-> i1, j |-> j1, prefix |-> p1, isAuthoritative |-> a1],
                     two |-> [i |-> i2, j |-> j2, prefix |-> p2, isAuthoritative |-> a2]]
         /\ result' = [fn |-> "generateNewFilenameTwice",
                       one |-> generateNewFilename(
                                  WallClock(NamePool[i1].t, NamePool[i1].zone), p1,
                                  TwinPool[j1].path, a1),
                       two |-> generateNewFilename(
                                  WallClock(NamePool[i2].t, NamePool[i2].zone), p2,
                                  TwinPool[j2].path, a2)]
    /\ UNCHANGED <<cfg, Local, exiftoolPath, fs, lost, queue, run, pc, cur, hist, env, last>>

\* filepath.Dir of a path with a separator: the part before the last one
Dir(path) == SubSeq(path, 1, Len(path) - Len(Base(path)) - 1)

\* filepath.Join(dir, name) for a clean dir
Join(dir, name) == dir \o Runes("/") \o name

\* supported files with the directory, the extension and the class a person
\* reads off the path
RenamePool ==
    << [path |-> Runes("/m/a.jpg"), dir |-> Runes("/m"), ext |-> Runes(".jpg"), image |-> TRUE],
       [path |-> Runes("/m/sub/B.JPG"), dir |-> Runes("/m/sub"), ext |-> Runes(".JPG"), image |-> TRUE],
       [path |-> Runes("/m/sub.d/x.mp4"), dir |-> Runes("/m/sub.d"), ext |-> Runes(".mp4"), image |-> FALSE],
       [path |-> Runes("/m/clip.final.MOV"), dir |-> Runes("/m"), ext |-> Runes(".MOV"), image |-> FALSE],
       [path |-> Runes("/m/IMG_20230815_143005.Jpeg"), dir |-> Runes("/m"), ext |-> Runes(".Jpeg"),
        image |-> TRUE],
       [path |-> Runes("/m/p/q/VID_20230815_143005_750.mkv"), dir |-> Runes("/m/p/q"), ext |-> Runes(".mkv"),
        image |-> FALSE] >>

\* processFile from the planned name to the path given to enrichMetadata
\* (lines 250-267) for a file the walk classified; exists and the draw are
\* what getUniquePath meets
CallRenamePlan ==
    /\ args = NoArgs
    /\ \E j \in 1..Len(RenamePool), i \in {1, 5}, isAuthoritative \in BOOLEAN,
          exists \in BOOLEAN, d \in {2, 5} :
         LET path == RenamePool[j].path
             isImage == extIn(imageExtMap, path)
             prefix == IF isImage THEN cfg.ImagePrefix ELSE cfg.VideoPrefix
             newBaseName == generateNewFilename(
                               WallClock(NamePool[i].t, NamePool[i].zone), prefix, path,
                               isAuthoritative)
             finalNewPath == IF newBaseName # Base(path)
                             THEN getUniquePath(Join(Dir(path), newBaseName), exists,
                                                DrawPool[d].n)
                             ELSE path
         IN /\ args' = [fn |-> "renamePlan", j |-> j, i |-> i,
                        isAuthoritative |-> isAuthoritative, exists |-> exists, d |-> d]
            /\ result' = [fn |-> "renamePlan", finalNewPath |-> finalNewPath,
                          renamed |-> newBaseName # Base(path),
                          walkImage |-> isImage,
                          walkVideo |-> extIn(videoExtMap, path),
                          resolveImage |-> extIn(imageExtMap, path),
                          enrichImage |-> extIn(imageExtMap, finalNewPath)]
    /\ UNCHANGED <<cfg, Local, exiftoolPath, fs, lost, queue, run, pc, cur, hist, env, last>>

\* configurations as config.json may give them: loadConfig returns the user's
\* lists as written
ConfigPool ==
    {DefaultConfig,
     [DefaultConfig EXCEPT !.SupportedImageExtensions = <<Runes("JPG"), Runes("png")>>,
                           !.SupportedVideoExtensions = <<Runes("Mp4"), Runes("mov")>>,
                           !.ImagePrefix = Runes("PIC"), !.VideoPrefix = Runes("MOV")],
     [DefaultConfig EXCEPT !.SupportedImageExtensions = <<Runes("Jpg")>>,
                           !.SupportedVideoExtensions = <<Runes("MKV"), Runes("mp4")>>],
     [DefaultConfig EXCEPT !.SupportedImageExtensions =
                               <<Runes("jp") \o EAcute \o Runes("g")>>]}

\* paths of the walk with the extension each one carries
ClassifyPool ==
    <<[path |-> Runes("a.jpg"), ext |-> Runes("jpg")],   [path |-> Runes("a.JPG"), ext |-> Runes("JPG")],
      [path |-> Runes("a.Jpg"), ext |-> Runes("Jpg")],   [path |-> Runes("b.png"), ext |-> Runes("png")],
      [path |-> Runes("b.PNG"), ext |-> Runes("PNG")],   [path |-> Runes("c.mp4"), ext |-> Runes("mp4")],
      [path |-> Runes("c.MP4"), ext |-> Runes("MP4")],   [path |-> Runes("c.Mp4"), ext |-> Runes("Mp4")],
      [path |-> Runes("d.mov"), ext |-> Runes("mov")],   [path |-> Runes("d.MOV"), ext |-> Runes("MOV")],
      [path |-> Runes("e.mkv"), ext |-> Runes("mkv")],   [path |-> Runes("e.MKV"), ext |-> Runes("MKV")],
      [path |-> Runes("f.tar.gif"), ext |-> Runes("gif")], [path |-> Runes("notes.txt"), ext |-> Runes("txt")],
      [path |-> Runes("README"), ext |-> << >>],
      [path |-> Runes("x.HE") \o DottedI \o Runes("C"),
       ext |-> Runes("HE") \o DottedI \o Runes("C")],
      [path |-> Runes("x.M") \o KelvinSign \o Runes("V"),
       ext |-> Runes("M") \o KelvinSign \o Runes("V")],
      [path |-> Runes("a.JP") \o EAcuteCapital \o Runes("G"),
       ext |-> Runes("JP") \o EAcuteCapital \o Runes("G")]>>

\* lines 204-213 of the WalkDir callback for one regular file
CallClassify ==
    /\ args = NoArgs
    /\ \E c \in ConfigPool, i \in 1..Len(ClassifyPool) :
         LET path == ClassifyPool[i].path
             isImage == extIn(sliceToMap(c.SupportedImageExtensions), path)
             isVideo == extIn(sliceToMap(c.SupportedVideoExtensions), path)
         IN  /\ args' = [fn |-> "classify", cfg |-> c, path |-> path,
                         ext |-> ClassifyPool[i].ext]
             /\ result' = [fn |-> "classify", isImage |-> isImage, isVideo |-> isVideo,
                           processed |-> (isImage \/ isVideo),
                           prefix |-> IF ~(isImage \/ isVideo) THEN << >>
                                      ELSE IF isImage THEN c.ImagePrefix
                                      ELSE c.VideoPrefix]
    /\ UNCHANGED <<cfg, Local, exiftoolPath, fs, lost, queue, run, pc, cur, hist, env, last>>

InitFn ==
    /\ cfg = DefaultConfig /\ Local = UTC
    /\ exiftoolPath \in {"", "/usr/bin/exiftool"}
    /\ fs = << >> /\ lost = {} /\ queue = << >> /\ run = 1 /\ pc = "walk"
    /\ cur = NoCur /\ hist = << >> /\ env = 0 /\ last = NoLast
    /\ args = NoArgs /\ result = NoResult

NextFn ==
    \/ CallGetAuthoritativeTime \/ CallGenerateNewFilename \/ CallRounding \/ CallClassify
    \/ CallEnrichMetadata \/ CallGetUniquePath \/ CallGenerateNewFilenameTwice
    \/ CallRenamePlan

SpecFn == InitFn /\ [][NextFn]_vars

(***************************************************************************)
(* Properties of the pipeline                                              *)
(***************************************************************************)
\* a field value that enrichment must leave alone
Filled(value) == value # << >> /\ value # Sentinel

\* the timestamp fields of the class of a path
ClassFields(path) == IF isImagePath(path) THEN ImageFields ELSE VideoFields

\* C1: every timestamp field that holds a non-empty, non-sentinel value when
\* enrichMetadata starts holds the same value when it has finished, whatever
\* the resolved instant, and also when the field was filled by another
\* program after the time was resolved.
C1_NonOverwrite ==
    last.op = "enrich" =>
        \A fld \in MetaFields :
            Filled(last.before[fld]) => fs[last.f].meta[fld] = last.before[fld]

\* C1 case: v.jpg holds SubSecTime 0 and no other field; its modification
\* time has 750 ms, and the write replaces the 0 by 750
C1_ZeroSubSecOverwritten ==
    /\ last.op = "enrich" /\ last.invoked /\ last.err = ""
    /\ Catalogue[last.f].name = Runes("v.jpg")
    /\ last.before["SubSecTime"] = Runes("0")
    /\ fs[last.f].meta["SubSecTime"] = Runes("750")

\* C2: every rename performed by processFile targets a path no other file
\* occupies: no file's content is replaced and the directory keeps all its files.
C2_NoFileLost ==
    /\ lost = {}
    /\ \A f \in DOMAIN fs : fs[f].alive
    /\ (last.op = "rename" /\ last.renamed) => last.victim = 0

\* C2 scenario: a rename to a suffixed path replaced another file that had
\* itself received that suffixed path earlier in the same run
C2_SuffixedPathReplaced ==
    /\ last.op = "rename" /\ last.renamed /\ last.victim # 0
    /\ last.to # cur.newBaseName
    /\ ~fs[last.victim].alive /\ fs[last.victim].name = last.to

\* name is ideal, or ideal with a collision suffix "_[RRR]" before the extension
CanonicalFor(name, ideal) ==
    \/ name = ideal
    \/ LET ext == Ext(ideal)
           base == TrimSuffix(ideal, ext)
       IN /\ Len(name) = Len(ideal) + 6
          /\ HasPrefix(name, base \o Runes("_["))
          /\ HasSuffix(name, Runes("]") \o ext)
          /\ AllDigits(name, Len(base) + 3, Len(base) + 5)

\* the rename step has just handled, in a later run, a file whose earlier
\* pipeline succeeded and whose resolved instant is the one resolved then
RerunSameInstant ==
    /\ run > 1 /\ last.op = "rename" /\ pc = "enrich"
    /\ hist[last.f].seen /\ hist[last.f].ok /\ hist[last.f].t = cur.t

\* C3: when a file whose basename is canonical for its resolved instant, with
\* or without a collision suffix, is processed again with the same resolved
\* instant, no rename is performed.
C3_IdempotentRename ==
    (RerunSameInstant /\ CanonicalFor(last.from, cur.newBaseName)) => last.to = last.from

\* C3 scenario: a file that carries the collision suffix of the earlier run
\* is moved to another name by the next run
C3_SuffixedRenamedAgain ==
    /\ RerunSameInstant /\ CanonicalFor(last.from, cur.newBaseName)
    /\ last.from # cur.newBaseName /\ last.renamed /\ last.to # last.from

\* the rename step has just handled, in the second run and with the tool
\* present, a file whose first pipeline took its time from mtime, got the
\* ideal name and succeeded in all three steps
SecondRunOfMtimeFile ==
    /\ run = 2 /\ last.op = "rename" /\ pc = "enrich" /\ exiftoolPath # ""
    /\ hist[last.f].seen /\ hist[last.f].ok /\ hist[last.f].source = "mtime"
    /\ ~hist[last.f].suffixed /\ lost = {}

\* C4: a file in which no metadata tag parses has its final name after one
\* complete run with the tool available: the second run computes the same
\* basename and performs no rename.
C4_SingleRunConvergence ==
    SecondRunOfMtimeFile =>
        /\ cur.newBaseName = last.from
        /\ ~last.renamed

\* C4 scenario: a video named from a sub-second mtime in the first run is
\* renamed by the second run, which reads the second-precision dates the
\* first run wrote
C4_VideoRenamedInSecondRun ==
    /\ SecondRunOfMtimeFile /\ ~isImagePath(last.from)
    /\ cur.isAuthoritative /\ last.renamed /\ last.to # last.from

\* C5: once every timestamp field of a file is filled, enrichMetadata builds
\* an empty patch set and issues no external write call.
C5_NoWriteCallWhenFilled ==
    (last.op = "enrich" /\ \A fld \in ClassFields(last.from) : Filled(last.before[fld]))
        => (~last.invoked /\ Len(last.patch) = 0)

\* C5 scenario: in the second run the tool is called for a file whose fields
\* the first run filled, with a triple for each of them, and changes nothing
C5_WriteCallOnFilledFile ==
    /\ run = 2 /\ last.op = "enrich" /\ last.invoked
    /\ \A fld \in ClassFields(last.from) : Filled(last.before[fld])
    /\ Len(last.patch) > 0
    /\ fs[last.f].meta = last.before


(***************************************************************************)
(* Properties of single calls                                              *)
(***************************************************************************)
Resolving == args.fn = "getAuthoritativeTime"

\* the class of the called file and its candidate tags, in priority order
CallIsImage == args.path \in {Runes("a.jpg"), Runes("B.JPG")}
CallTags ==
    IF CallIsImage THEN <<"Composite:SubSecDateTimeOriginal", "DateTimeOriginal">>
    ELSE <<"MediaCreateDate", "TrackCreateDate", "CreateDate">>

\* the read given to the i-th candidate tag
ReadOf(i) == ReadPool[args.pick[CallTags[i]]]

\* the first candidate tag whose read denotes a time, 0 when there is none
\* or when there is no tool to read tags with
FirstGood ==
    IF exiftoolPath # "" /\ \E i \in 1..Len(CallTags) : ReadOf(i).good
    THEN CHOOSE i \in 1..Len(CallTags) :
            ReadOf(i).good /\ \A j \in 1..(i - 1) : ~ReadOf(j).good
    ELSE 0

\* the instant a read denotes: at its own offset when it names one, else in
\* the target zone for an image and in UTC for a video; targetOff is the
\* offset of the target zone on the day of the read
Denoted(e, isImage, targetOff) ==
    [s |-> e.wall - 60 * (IF e.zoned THEN e.zoff ELSE IF isImage THEN targetOff ELSE 0),
     ns |-> e.ns]

\* C6: a metadata string without an offset is read in the target zone for an
\* image and in UTC for a video.
C6_NaiveZoneInference ==
    (Resolving /\ FirstGood # 0 /\ ~ReadOf(FirstGood).zoned) =>
        /\ result.r.t.ns = ReadOf(FirstGood).ns
        /\ result.r.t.s = IF CallIsImage
                          THEN ReadOf(FirstGood).wall - 60 * args.zone.aug
                          ELSE ReadOf(FirstGood).wall

\* C6 witness: "2023:08:15 14:30:05" on an image with a target zone that is
\* at -04:00 on that day resolves to 2023-08-15T14:30:05-04:00, which is
\* 18:30:05 UTC
C6_NaiveImageExample ==
    /\ Resolving /\ CallIsImage /\ args.zone.loc = Eastern /\ FirstGood = 2
    /\ ReadOf(2).out = Runes("2023:08:15 14:30:05\n")
    /\ result.r.t = [s |-> 1692124205, ns |-> 0]

\* C7: a metadata string that names an offset, or ends in "Z", resolves to
\* the instant it denotes at that offset, for either class and any target zone.
C7_EmbeddedOffsetWins ==
    (Resolving /\ FirstGood # 0 /\ ReadOf(FirstGood).zoned) =>
        result.r.t = [s |-> ReadOf(FirstGood).wall - 60 * ReadOf(FirstGood).zoff,
                      ns |-> ReadOf(FirstGood).ns]

\* C7 witness: "2023:08:15 14:30:05+08:00" on an image with target -05:00
\* resolves to 06:30:05 UTC
C7_OffsetImageExample ==
    /\ Resolving /\ CallIsImage /\ args.zone.loc = FixedZone(-300) /\ FirstGood = 1
    /\ ReadOf(1).out = Runes("2023:08:15 14:30:05+08:00\n")
    /\ result.r.t = [s |-> 1692081005, ns |-> 0]

\* C8: the result is authoritative exactly when a candidate tag denotes a
\* time, and then it carries the instant and the name of the first such tag
\* in the class's order.
C8_TagPriority ==
    Resolving =>
        /\ result.r.isAuthoritative <=> FirstGood # 0
        /\ FirstGood # 0 =>
              /\ result.r.source = "metadata (" \o CallTags[FirstGood] \o ")"
              /\ result.r.t = Denoted(ReadOf(FirstGood), CallIsImage, args.zone.aug)
              /\ ~result.r.err

\* C8 witness: a video whose three tags all denote times, the first a
\* different instant from the others: MediaCreateDate supplies the result
C8_FirstOfThreeWins ==
    /\ Resolving /\ ~CallIsImage /\ FirstGood = 1
    /\ ReadOf(1).out = Runes("2023:08:15 06:30:05Z\n")
    /\ ReadOf(2).out = Runes("2023:08:15 14:30:05.750-05:00\n")
    /\ ReadOf(3).out = Runes("2023:08:15 14:30:05\n")
    /\ result.r.source = "metadata (MediaCreateDate)"
    /\ result.r.t = [s |-> 1692081005, ns |-> 0]

\* C9: a tag whose read fails, is empty or the sentinel, or does not parse is
\* passed over for the next one; with no tag left the result is the
\* modification time, not authoritative; an error is returned only when no
\* tag succeeded and the stat fails.
C9_ResolutionErrors ==
    Resolving =>
        /\ result.r.err <=> (FirstGood = 0 /\ args.statErr)
        /\ (FirstGood = 0 /\ ~args.statErr) =>
              /\ result.r.t = args.mtime
              /\ result.r.source = "mtime"
              /\ ~result.r.isAuthoritative
        /\ FirstGood > 1 =>
              /\ result.r.isAuthoritative
              /\ result.r.source = "metadata (" \o CallTags[FirstGood] \o ")"

\* C9 witness: a video whose first tag cannot be read and whose second does
\* not parse resolves from the third, although the stat would fail
C9_SkipsToThirdTag ==
    /\ Resolving /\ ~CallIsImage /\ args.statErr
    /\ ReadOf(1).err /\ ReadOf(2).out = Runes("2023-08-15T14:30:05\n") /\ ReadOf(3).good
    /\ result.r.source = "metadata (CreateDate)" /\ ~result.r.err

\* C10: generateNewFilename returns PREFIX_YYYYMMDD_HHMMSS.ext from the wall
\* clock in the target zone, with _MMM before the extension exactly when the
\* instant is authoritative and its rounded milliseconds are above 0.
C10_CanonicalBasename ==
    args.fn = "generateNewFilename" =>
        result.name =
            args.prefix \o Runes("_") \o NamePool[args.i].base
                \o (IF args.isAuthoritative /\ NamePool[args.i].ms # << >>
                    THEN Runes("_") \o NamePool[args.i].ms ELSE << >>)
                \o PathPool[args.j].ext

\* C10 witness: 2023-08-15T14:30:05.750+08:00, authoritative, prefix IMG
C10_Example ==
    /\ args.fn = "generateNewFilename" /\ args.isAuthoritative /\ args.prefix = Runes("IMG")
    /\ NamePool[args.i].t = Shot(750000000) /\ PathPool[args.j].path = Runes("a.jpg")
    /\ result.name = Runes("IMG_20230815_143005_750.jpg")

\* C11: the milliseconds in the filename and in the sub-second fields are
\* the nanoseconds rounded half up to the millisecond, 1000 becoming 999; the
\* date and clock digits of the name and of the date fields are those of the
\* unrounded instant. With the tool the name of either class carries them,
\* an image's patch carries them in the three sub-second fields and a
\* video's patch has no sub-second field; without the tool the name has no
\* milliseconds and nothing is written.
C11_MillisecondRounding ==
    args.fn = "rounding" =>
        LET ms == RoundPool[args.i].ms
            image == args.path = Runes("a.jpg")
            stem == IF image THEN Runes("IMG_20230815_143005") ELSE Runes("VID_20230815_143005")
            ext == IF image THEN Runes(".jpg") ELSE Runes(".mp4")
            subsec == {"SubSecTimeOriginal", "SubSecTimeDigitized", "SubSecTime"}
        IN IF exiftoolPath = ""
           THEN /\ result.name = stem \o ext
                /\ result.date = << >> /\ result.videoDate = << >>
                /\ \A tg \in subsec : result.subsec[tg] = << >>
           ELSE /\ result.name = IF ms = Runes("000") THEN stem \o ext
                                 ELSE stem \o Runes("_") \o ms \o ext
                /\ result.date = IF image THEN Runes("2023:08:15 14:30:05") ELSE << >>
                /\ result.videoDate = IF image THEN << >> ELSE Runes("2023:08:15 06:30:05")
                /\ \A tg \in subsec :
                      result.subsec[tg] = IF image /\ ms # Runes("000") THEN ms ELSE << >>

\* C11 witness: 999.6 ms gives 999 in the name and in the sub-second fields,
\* the second still 05
C11_ClampExample ==
    /\ args.fn = "rounding" /\ RoundPool[args.i].ns = 999600000
    /\ exiftoolPath # "" /\ args.isAuthoritative
    /\ result.name = Runes("IMG_20230815_143005_999.jpg")
    /\ result.subsec["SubSecTimeOriginal"] = Runes("999")
    /\ result.date = Runes("2023:08:15 14:30:05")

(***************************************************************************)
(* Properties of the pipeline's failure handling                           *)
(***************************************************************************)
\* C12: when getUniquePath or os.Rename fails, processFile is over for the
\* file: no metadata write and no timestamp sync follow, and the file is as it
\* was, under its old name.
C12_RenameFailureAborts ==
    (last.op = "rename" /\ last.err # "") =>
        /\ pc = "walk" /\ cur = NoCur
        /\ fs[last.f] = last.was
        /\ fs[last.f].name = last.from
        /\ \A i \in 1..Len(queue) : queue[i] # last.from

\* C12 witness: with the tool present, os.Rename failed in the first run on a
\* file whose fields the write would have filled; the file is as it started
C12_RenameFailed ==
    /\ run = 1 /\ exiftoolPath # "" /\ last.op = "rename" /\ last.err = "rename"
    /\ last.to # last.from
    /\ fs[last.f].name = Catalogue[last.f].name
    /\ fs[last.f].meta = Catalogue[last.f].meta /\ fs[last.f].meta = NoMeta
    /\ fs[last.f].mtime = Catalogue[last.f].mtime

\* C13: after the metadata write the timestamp sync is next whatever the
\* write returned; the write counts as failed for exit statuses 1 and 3 and
\* as done for 0 and 2; a sync that follows a failed write sets the mtime.
C13_WriteFailureDoesNotBlockSync ==
    /\ last.op = "enrich" =>
          /\ pc = "sync"
          /\ cur.enrichErr <=> (last.invoked /\ last.exit \in {1, 3})
          /\ (last.err = "write") <=> (last.invoked /\ last.exit \in {1, 3})
    /\ (last.op = "sync" /\ last.err = "" /\ ~hist[last.f].ok) =>
          fs[last.f].mtime = hist[last.f].t

\* C13 witness: the sync has set the mtime of a file whose write had failed
C13_SyncAfterFailedWrite ==
    /\ last.op = "sync" /\ last.err = "" /\ ~hist[last.f].ok
    /\ exiftoolPath # "" /\ fs[last.f].mtime = hist[last.f].t
    /\ last.was.mtime # hist[last.f].t

\* C14: the steps of a file come in the order rename, write, sync; the sync
\* ends the file's processing and leaves access and modification time equal
\* to the resolved instant, also after a write that rewrote the file.
C14_StepOrderAndFinalMtime ==
    /\ (last.op = "rename" /\ last.err = "") => pc = "enrich"
    /\ pc = "enrich" => last.op \in {"rename", "edit"}
    /\ pc = "sync" <=> last.op = "enrich"
    /\ last.op = "sync" => (pc = "walk" /\ cur = NoCur)
    /\ (last.op = "sync" /\ last.err = "") =>
          /\ fs[last.f].mtime = hist[last.f].t
          /\ fs[last.f].atime = hist[last.f].t

\* C14 witness: the sync put the resolved instant on a file the write had
\* just rewritten (its mtime was the time of the write)
C14_SyncAfterRewrite ==
    /\ last.op = "sync" /\ last.err = "" /\ hist[last.f].ok
    /\ last.was.mtime = Now /\ last.was.meta # Catalogue[last.f].meta
    /\ fs[last.f].mtime = hist[last.f].t /\ hist[last.f].t # Now

\* the files of the starting directory that the callback hands to processFile
Classified(f) ==
    LET ext == Ext(Catalogue[f].name)
    IN ext \in {Runes(".mkv"), Runes(".mp4"), Runes(".MOV"), Runes(".jpg"), Runes(".JPG"), Runes(".jpeg"), Runes(".png")}

\* C15: a failure of resolution, of getUniquePath or of os.Rename ends that
\* file only; the walk is aborted by an error of the enumeration and by
\* nothing else, and nothing is done after it; a run that is not aborted
\* has handed every media file to processFile.
C15_FailureIsolation ==
    /\ last.err \in {"stat", "rand", "rename"} => (pc = "walk" /\ cur = NoCur)
    /\ pc = "aborted" <=> last.op = "walkerr"
    /\ (run = 1 /\ pc = "walk" /\ queue = << >>) =>
          \A f \in DOMAIN fs : Classified(f) => hist[f].seen

\* C15 witness: the first run ended with one file failed at resolution and
\* another one, later in the listing, renamed and synced
C15_LaterFileProcessed ==
    /\ run = 1 /\ pc = "walk" /\ queue = << >>
    /\ \E f, g \in DOMAIN fs :
          /\ hist[f].seen /\ ~hist[f].ok /\ hist[f].source = ""
          /\ hist[g].ok /\ fs[g].name # Catalogue[g].name
          /\ StrLess(Catalogue[f].name, Catalogue[g].name)

\* the candidate tags whose read, in the latest resolution, failed or gave a
\* text that is no time
FailedTags ==
    {tg \in DOMAIN last.reads :
        /\ TagIndex(timeTagsOf(isImagePath(last.from)), tg) <= last.probed
        /\ \/ last.reads[tg].err
           \/ /\ getExifDate(last.reads[tg]).str # << >>
              /\ ~parseExifTime(getExifDate(last.reads[tg]).str, 0).ok
              /\ ~parseExifTime(getExifDate(last.reads[tg]).str, targetLocation).ok}

\* C16: every failure (tag read, tag parse, stat, unique path, rename, hard
\* write failure, sync) leaves a log line naming the step.
C16_NoSilentFailure ==
    /\ last.err # "" => last.logs # {}
    /\ (last.op = "resolve" /\ FailedTags # {}) => last.logs # {}

\* C16 scenario: a tag could not be read, the time came from the mtime and
\* nothing was logged
C16_SilentReadFailure ==
    /\ last.op = "resolve" /\ last.err = "" /\ last.logs = {}
    /\ \E tg \in DOMAIN last.reads : last.reads[tg].err
    /\ cur.source = "mtime"

\* C17: without the tool no tag is read and no field is written, every time
\* comes from the mtime and is not authoritative, nothing is promoted and no
\* name gets a millisecond part.
C17_LimitedMode ==
    exiftoolPath = "" =>
        /\ last.probed = 0 /\ ~last.invoked
        /\ last.op \in {"resolve", "rename", "enrich", "sync"} =>
              fs[last.f].meta = last.was.meta
        /\ pc \in {"rename", "enrich", "sync"} =>
              /\ cur.source = "mtime" /\ ~cur.isAuthoritative /\ ~cur.nameAuth
              /\ Len(cur.newBaseName) = Len(cur.prefix) + 16 + Len(Ext(cur.path))
        /\ \A f \in DOMAIN fs : hist[f].seen => hist[f].source \in {"", "mtime"}

\* C17 witness: mtime 2023-01-01T00:00:00 in the target zone, prefix VID, no
\* tool: the file is renamed to VID_20230101_000000.mkv
C17_Example ==
    /\ exiftoolPath = "" /\ last.op = "rename" /\ last.renamed
    /\ last.from = Runes("old.mkv") /\ last.to = Runes("VID_20230101_000000.mkv")
    /\ ~cur.isAuthoritative /\ cur.source = "mtime"

(***************************************************************************)
(* Properties of main before the walk                                      *)
(***************************************************************************)
\* some file of the directory is not as it was at the start
Touched == \E f \in DOMAIN fs : fs[f] # StartFile(f)

\* the walk has begun
Walking == pc \in {"walk", "rename", "enrich", "sync", "aborted"}

\* every file has the name, the content and the mtime it had at the start,
\* and its atime is that of the start or the time of a read
OnlyRead ==
    \A f \in DOMAIN fs : fs[f] \in {StartFile(f), [StartFile(f) EXCEPT !.atime = Now]}

\* the lines that are yes, the phrase, or y / Y between white space, written out
TypedYes ==
    {Runes("yes\n"), Runes(" yes \n"), Runes("yes\f\n"),
     NoBreakSpace \o Runes("yes") \o NextLine \o Runes("\n"),
     Runes("yes") \o IdeographicSpace \o Runes("\n")}
TypedPhrase ==
    {Runes("Please continue anyway!\n"), Runes("Please continue anyway!\f\n"),
     NoBreakSpace \o Runes("Please continue anyway!") \o IdeographicSpace}
TypedY ==
    {Runes("y\n"), Runes("Y\n"), Runes("Y\f\n"),
     Runes("y") \o VerticalTab \o Runes("\n"),
     EnQuad \o Runes("Y") \o LineSeparator \o Runes("\n")}

\* C18 as claimed: unless -no-backup is given, the walk begins and no file
\* is changed in any way, its access time included, before a backup that
\* succeeded, or a failed one that the user (who did not pass --yes)
\* answered to go on from; a failed backup with --yes ends the run with no
\* file changed. createBackup's own reads move access times, also when it
\* fails.
C18_BackupBeforeChange ==
    /\ (Walking \/ Touched) =>
          \/ args.noBackup /\ result.backup = "skipped"
          \/ result.backup = "ok"
          \/ result.backup = "failed" /\ ~args.autoConfirm /\ result.cont \in TypedY
    /\ (result.backup = "failed" /\ args.autoConfirm) =>
          (pc = "exited" /\ ~Touched /\ result.exit = 1)

\* C18, amended: unless -no-backup is given, the walk, which alone renames
\* files, writes their metadata and sets their times, begins only after a
\* backup that succeeded, or after a failed one that the user (who did not
\* pass --yes) answered to go on from. Until the walk begins every file
\* keeps its name, its content and its mtime; nothing at all has changed
\* before createBackup is called, and createBackup moves at most the access
\* time of files it reads. A failed backup with --yes ends the run at the
\* backup with exit status 1 and every file's name, content and mtime as
\* they were.
C18_BackupBeforeChangeButAtime ==
    /\ Walking =>
          \/ args.noBackup /\ result.backup = "skipped"
          \/ result.backup = "ok"
          \/ result.backup = "failed" /\ ~args.autoConfirm /\ result.cont \in TypedY
    /\ ~Walking => OnlyRead
    /\ (~Walking /\ result.backup = "-") => ~Touched
    /\ (result.backup = "failed" /\ args.autoConfirm) =>
          (pc = "exited" /\ last.op = "backup" /\ OnlyRead /\ result.exit = 1)

\* C18 witness: the backup failed in a run with --yes after it had read
\* a.mkv, whose access time moved, and before it read notes.txt; the run
\* ended with exit status 1
C18_FailedBackupMovedAtime ==
    /\ ~args.noBackup /\ args.autoConfirm /\ result.backup = "failed"
    /\ pc = "exited" /\ result.exit = 1 /\ last.op = "backup"
    /\ \E f, g \in DOMAIN fs :
          /\ fs[f].name = Runes("a.mkv") /\ fs[f] = [StartFile(f) EXCEPT !.atime = Now]
          /\ fs[f].atime # StartFile(f).atime
          /\ fs[g].name = Runes("notes.txt") /\ fs[g] = StartFile(g)

\* C19: the backup is made, the walk begins and files change only after the
\* user typed yes or passed --yes; without the tool main gets past the
\* warning only when the user typed "Please continue anyway!", with or
\* without --yes. A run that ends at the target directory check, by
\* log.Fatalf or by the panic on a failed os.Stat, has changed no file.
C19_ConfirmationBeforeChange ==
    /\ (Walking \/ Touched \/ pc = "backup" \/ result.backup # "-") =>
          (args.autoConfirm \/ result.confirm \in TypedYes)
    /\ (args.targetDir # "dir") =>
          (~Walking /\ ~Touched /\ pc # "backup" /\ result.backup = "-")
    /\ (result.exit = 2) => (pc = "exited" /\ args.targetDir = "error")
    /\ (exiftoolPath = "" /\ pc \notin {"zone", "start", "exited"}) =>
          result.critical \in TypedPhrase
    /\ (exiftoolPath = "" /\ Touched) => result.critical \in TypedPhrase

\* C19 witness: --yes was passed, the tool is missing, the user typed the
\* phrase and a file was renamed
C19_LimitedModeConfirmed ==
    /\ args.autoConfirm /\ exiftoolPath = "" /\ Touched /\ last.op = "rename"
    /\ result.critical = Runes("Please continue anyway!\n") /\ result.confirm = Runes("-")

(***************************************************************************)
(* Classification by extension                                             *)
(***************************************************************************)
\* the extensions of the pools with letter case folded, written out: the
\* lower-case letter of U+0130 is "i", that of the Kelvin sign is "k", that of
\* U+00C9 is U+00E9
Folded ==
    [x \in {Runes("jpg"), Runes("JPG"), Runes("Jpg"), Runes("jpeg"), Runes("png"),
            Runes("PNG"), Runes("heic"), Runes("webp"), Runes("gif"), Runes("mp4"),
            Runes("MP4"), Runes("Mp4"), Runes("mov"), Runes("MOV"), Runes("avi"),
            Runes("mkv"), Runes("MKV"), Runes("txt"), << >>,
            <<72, 69, 304, 67>>, <<77, 8490, 86>>, <<74, 80, 201, 71>>,
            <<106, 112, 233, 103>>} |->
       CASE x \in {Runes("jpg"), Runes("JPG"), Runes("Jpg")} -> Runes("jpg")
         [] x \in {Runes("png"), Runes("PNG")} -> Runes("png")
         [] x \in {Runes("mp4"), Runes("MP4"), Runes("Mp4")} -> Runes("mp4")
         [] x \in {Runes("mov"), Runes("MOV")} -> Runes("mov")
         [] x \in {Runes("mkv"), Runes("MKV"), <<77, 8490, 86>>} -> Runes("mkv")
         [] x = <<72, 69, 304, 67>> -> Runes("heic")
         [] x = <<74, 80, 201, 71>> -> <<106, 112, 233, 103>>
         [] OTHER -> x]

\* the list has an entry equal to the extension up to letter case
ListedFold(list, ext) == \E k \in 1..Len(list) : Folded[list[k]] = Folded[ext]

\* C20: a file is an image (a video) exactly when its extension equals an
\* entry of the configured image (video) list up to letter case, whatever
\* the case of either; it is processed exactly when it is one of the two,
\* with the image prefix for an image and the video prefix for a video.
C20_CaseInsensitiveClassification ==
    result.fn = "classify" =>
       LET img == ListedFold(args.cfg.SupportedImageExtensions, args.ext)
           vid == ListedFold(args.cfg.SupportedVideoExtensions, args.ext)
       IN  /\ result.isImage = img
           /\ result.isVideo = vid
           /\ result.processed = (img \/ vid)
           /\ img => result.prefix = args.cfg.ImagePrefix
           /\ (vid /\ ~img) => result.prefix = args.cfg.VideoPrefix

\* C20 case: the image list holds "JPG" and a.jpg is not taken as an image
C20_UpperCaseEntryNeverMatches ==
    /\ result.fn = "classify" /\ args.path = Runes("a.jpg")
    /\ args.cfg.SupportedImageExtensions = <<Runes("JPG"), Runes("png")>>
    /\ ~result.isImage /\ ~result.processed

(***************************************************************************)
(* The patch enrichMetadata builds                                         *)
(***************************************************************************)
\* the tags of a patch
PatchTags(patch) == {patch[k].tag : k \in 1..Len(patch)}

QuickTimeSix ==
    {"QuickTime:MediaCreateDate", "QuickTime:TrackCreateDate", "QuickTime:CreateDate",
     "QuickTime:MediaModifyDate", "QuickTime:TrackModifyDate", "QuickTime:ModifyDate"}

\* the guard of a triple passes on an empty field and on no filled one, and
\* passes on the sentinel exactly when withSentinel
GuardIs(a, withSentinel) ==
    /\ guardHolds(a, << >>)
    /\ guardHolds(a, Sentinel) = withSentinel
    /\ ~guardHolds(a, Runes("2020:01:01 00:00:00")) /\ ~guardHolds(a, Runes("+01:00"))
    /\ ~guardHolds(a, Runes("000")) /\ ~guardHolds(a, Runes("0"))

\* C21: with the tool present, the patch of an image has one triple for each
\* of the three date fields (guard empty or sentinel, value the wall clock in
\* the target zone), one for each of the three offset fields (guard empty,
\* value the zone's offset) and, only when the milliseconds round to more
\* than 0, one for each of the three sub-second fields (guard empty, value
\* the milliseconds); the patch of a video has exactly the six QuickTime
\* date fields (guard empty or sentinel, value the wall clock in UTC).
C21_PatchByClass ==
    (result.fn = "enrichMetadata" /\ result.invoked) =>
       LET p == result.patch
           e == EnrichPool[args.i]
       IN IF args.path \in {Runes("a.jpg"), Runes("B.JPG")}
          THEN /\ PatchTags(p) =
                    {"DateTimeOriginal", "CreateDate", "ModifyDate",
                     "OffsetTimeOriginal", "OffsetTimeDigitized", "OffsetTime"}
                    \cup (IF e.ms # << >>
                          THEN {"SubSecTimeOriginal", "SubSecTimeDigitized", "SubSecTime"}
                          ELSE {})
               /\ Len(p) = Cardinality(PatchTags(p))
               /\ \A k \in 1..Len(p) :
                    CASE p[k].tag \in {"DateTimeOriginal", "CreateDate", "ModifyDate"} ->
                           GuardIs(p[k], TRUE) /\ p[k].value = e.wall
                      [] p[k].tag \in {"OffsetTimeOriginal", "OffsetTimeDigitized",
                                       "OffsetTime"} ->
                           GuardIs(p[k], FALSE) /\ p[k].value = e.off
                      [] OTHER -> GuardIs(p[k], FALSE) /\ p[k].value = e.ms
          ELSE /\ PatchTags(p) = QuickTimeSix
               /\ Len(p) = 6
               /\ \A k \in 1..Len(p) : GuardIs(p[k], TRUE) /\ p[k].value = e.utc

\* C21 case: the patch of an image with milliseconds has a triple for
\* SubSecTime whose condition passes on a field that holds 0
C21_GuardPassesOnZero ==
    /\ result.fn = "enrichMetadata" /\ result.invoked /\ args.path = Runes("a.jpg")
    /\ EnrichPool[args.i].ms = Runes("750")
    /\ \E k \in 1..Len(result.patch) :
          /\ result.patch[k].tag = "SubSecTime" /\ result.patch[k].value = Runes("750")
          /\ guardHolds(result.patch[k], Runes("0"))


(***************************************************************************)
(* The promotion of an mtime-derived instant                               *)
(***************************************************************************)
\* C22: the name is planned as for an authoritative instant exactly when the
\* resolver said so or the tool is present and the instant has at least half
\* a millisecond; a promoted instant keeps the label mtime and is the file's
\* modification time, the write call carries the patch of that modification
\* time, and the sync sets the file's times to it.
C22_PromotionScope ==
    /\ pc \in {"rename", "enrich", "sync"} =>
          /\ cur.nameAuth =
                (cur.isAuthoritative \/ (exiftoolPath # "" /\ cur.t.ns >= 500000))
          /\ ~cur.isAuthoritative => cur.source = "mtime"
    /\ (pc = "rename" /\ last.op = "resolve" /\ ~cur.isAuthoritative) =>
          cur.t = last.was.mtime
    /\ (pc = "sync" /\ last.op = "enrich" /\ last.invoked /\ ~cur.isAuthoritative) =>
          last.patch = enrichArgs(last.was.mtime, targetLocation,
                                  cur.prefix = cfg.ImagePrefix)
    /\ (last.op = "sync" /\ last.err = "" /\ hist[last.f].source = "mtime") =>
          /\ fs[last.f].mtime = hist[last.f].t
          /\ run = 1 => hist[last.f].t = Catalogue[last.f].mtime

\* C22 witness: p.jpg, whose modification time has 750 ms, is promoted with
\* the tool present, named with the milliseconds, and the write call is made
C22_PromotedImage ==
    /\ pc = "sync" /\ last.op = "enrich" /\ last.invoked
    /\ cur.path = Runes("p.jpg") /\ ~cur.isAuthoritative /\ cur.nameAuth
    /\ cur.source = "mtime" /\ cur.newBaseName = Runes("IMG_20230815_143005_750.jpg")

(***************************************************************************)
(* getUniquePath                                                           *)
(***************************************************************************)
\* C23: getUniquePath returns the ideal path as it is when nothing exists
\* there; when the ideal path exists it returns the path with _[RRR] put
\* before the extension, RRR the three digits of the one draw, whether or
\* not the suffixed path exists too.
C23_CollisionSuffix ==
    result.fn = "getUniquePath" =>
       LET u == UniquePool[args.i]
       IN IF args.exists
          THEN result.path = u.stem \o Runes("_[") \o DrawPool[args.d].digits \o Runes("]") \o u.ext
          ELSE result.path = u.path

\* C23 witness: the ideal path and the suffixed path both exist and the
\* suffixed path is returned
C23_SuffixedPathTaken ==
    /\ result.fn = "getUniquePath" /\ args.exists /\ args.suffixedExists
    /\ result.path = Runes("IMG_20230815_143005_[007].jpg")

(***************************************************************************)
(* The depth limit                                                         *)
(***************************************************************************)
\* the supported files of the tree whose directory is at most maxDepth
\* levels below the target directory (all of them for -1)
WithinDepth ==
    {Trees[args.tree][k].path : k \in
        {j \in 1..Len(Trees[args.tree]) :
            /\ Trees[args.tree][j].media
            /\ args.maxDepth = -1 \/ Trees[args.tree][j].level <= args.maxDepth}}

\* C24: with -depth N >= 0 the walk gives processFile exactly the supported
\* files whose directory is at most N levels below the target directory,
\* each once, and with -depth -1 every supported file: never another file
\* during the walk, and all of them when the walk has ended.
C24_DepthLimit ==
    args.fn = "WalkDir" =>
       /\ Range(result.processed) \subseteq WithinDepth
       /\ Len(result.processed) = Cardinality(Range(result.processed))
       /\ queue = << >> => Range(result.processed) = WithinDepth

\* C24 witness: -depth 1 has ended on the first tree: the files of the
\* target directory and of sub are processed, those below sub/deep are not
C24_DepthOneWalked ==
    /\ args.fn = "WalkDir" /\ args.maxDepth = 1 /\ args.tree = 1 /\ queue = << >>
    /\ result.processed = <<Runes("/m/a.jpg"), Runes("/m/sub/b.MP4"), Runes("/m/z.mkv")>>

(***************************************************************************)
(* The ideal basename as a function of four inputs                         *)
(***************************************************************************)
\* C25: two calls of generateNewFilename that agree on the normalized time,
\* the prefix, the extension and isAuthoritative return the same basename,
\* whatever the two files are called.
C25_DeterministicIdealName ==
    result.fn = "generateNewFilenameTwice" =>
       ((/\ NamePool[args.one.i].t = NamePool[args.two.i].t
         /\ args.one.prefix = args.two.prefix
         /\ TwinPool[args.one.j].ext = TwinPool[args.two.j].ext
         /\ args.one.isAuthoritative = args.two.isAuthoritative)
        => result.one = result.two)

\* C25 witness: a.jpg and IMG_20200101_000000_[123].jpg, resolved to the same
\* authoritative instant with 750 ms, get the same basename
C25_TwoFilesOneName ==
    /\ result.fn = "generateNewFilenameTwice"
    /\ TwinPool[args.one.j].path = Runes("a.jpg")
    /\ TwinPool[args.two.j].path = Runes("IMG_20200101_000000_[123].jpg")
    /\ args.one.i = 5 /\ args.two.i = 5
    /\ args.one.isAuthoritative /\ args.two.isAuthoritative
    /\ result.one = Runes("IMG_20230815_143005_750.jpg") /\ result.two = result.one

(***************************************************************************)
(* The path after the rename                                               *)
(***************************************************************************)
\* C26: the path processFile renames a file to lies in the file's directory
\* and ends in the file's extension, character for character, with no other
\* dot in the new basename; the class the walk computed, the class
\* getAuthoritativeTime computes on the old path and the class enrichMetadata
\* computes on the new path are the same.
C26_RenameKeepsClass ==
    result.fn = "renamePlan" =>
       LET e == RenamePool[args.j]
           rest == SubSeq(result.finalNewPath, Len(e.dir) + 2, Len(result.finalNewPath))
           stem == SubSeq(rest, 1, Len(rest) - Len(e.ext))
       IN /\ HasPrefix(result.finalNewPath, e.dir \o Runes("/"))
          /\ ~ContainsChar(rest, Rune("/"))
          /\ HasSuffix(rest, e.ext)
          /\ result.renamed => ~ContainsChar(stem, Rune("."))
          /\ result.walkImage = e.image /\ result.walkVideo = ~e.image
          /\ result.resolveImage = e.image
          /\ result.enrichImage = e.image

\* C26 witness: sub/B.JPG is renamed onto a taken name and keeps sub and .JPG
C26_UpperCaseExtensionKept ==
    /\ result.fn = "renamePlan" /\ result.renamed
    /\ RenamePool[args.j].path = Runes("/m/sub/B.JPG")
    /\ result.finalNewPath = Runes("/m/sub/IMG_20230815_143005_750_[007].JPG")
    /\ result.enrichImage

(***************************************************************************)
(* The milliseconds in the name and in the patch                           *)
(***************************************************************************)
\* C27: when the write call is made for an image, the planned basename has
\* a _MMM part after PREFIX_YYYYMMDD_HHMMSS exactly when the patch has the
\* three sub-second triples, and MMM is the value of each of them, for
\* instants read from metadata and for modification times alike.
C27_NameAndPatchAgree ==
    (last.op = "enrich" /\ last.invoked /\ cur.prefix = cfg.ImagePrefix) =>
       LET name == cur.newBaseName
           hasMs == Char(name, 20) = Rune("_")
           subsec == {"SubSecTimeOriginal", "SubSecTimeDigitized", "SubSecTime"}
       IN /\ hasMs \/ Char(name, 20) = Rune(".")
          /\ hasMs = (subsec \cap PatchTags(last.patch) # {})
          /\ hasMs => /\ subsec \subseteq PatchTags(last.patch)
                      /\ Char(name, 24) = Rune(".")
                      /\ \A tg \in subsec :
                            ArgValue(last.patch, tg) = SubSeq(name, 21, 23)

\* C27 witness: t.jpg, modified at 14:30:05.9996, is named with 999 and its
\* patch writes 999
C27_ClampedMtimeImage ==
    /\ last.op = "enrich" /\ last.invoked /\ cur.path = Runes("t.jpg")
    /\ ~cur.isAuthoritative
    /\ cur.newBaseName = Runes("IMG_20230815_143005_999.jpg")
    /\ ArgValue(last.patch, "SubSecTime") = Runes("999")

(***************************************************************************)
(* The instant resolved again after enrichment                             *)
(***************************************************************************)
\* the second run has just resolved, with the tool present and every tag
\* read answered, a file whose first pipeline succeeded in every step
ResolvedAgain ==
    /\ run = 2 /\ last.op = "resolve" /\ pc = "rename" /\ exiftoolPath # ""
    /\ hist[last.f].seen /\ hist[last.f].ok
    /\ \A tg \in DOMAIN last.reads : ~last.reads[tg].err

\* the same instant to the millisecond the name and the patch carry
\* (images) or to the second (videos)
SameInstant(t1, t2, isImage) ==
    /\ t1.s = t2.s
    /\ isImage =>
         (IF t1.ns >= 999500000 THEN 999 ELSE (t1.ns + 500000) \div 1000000)
           = (IF t2.ns >= 999500000 THEN 999 ELSE (t2.ns + 500000) \div 1000000)

\* C28: resolving a file again after a successful enrichment and sync yields
\* the instant resolved before, to the millisecond for an image and to the
\* second for a video, whatever fields the file had filled at the start.
C28_InstantKept ==
    ResolvedAgain => SameInstant(cur.t, hist[last.f].t, cur.prefix = cfg.ImagePrefix)

\* C28 case: r.jpeg started with OffsetTimeOriginal -05:00 and no date; the
\* first run resolved its modification time and filled DateTimeOriginal with
\* the wall clock in +08:00, and the second run reads that date with the old
\* offset: an instant 13 hours later
C28_DateFilledNextToOffset ==
    /\ ResolvedAgain /\ Catalogue[last.f].name = Runes("r.jpeg")
    /\ hist[last.f].source = "mtime" /\ cur.isAuthoritative
    /\ fs[last.f].meta["OffsetTimeOriginal"] = Runes("-05:00")
    /\ fs[last.f].meta["DateTimeOriginal"] = Runes("2023:08:15 14:30:05")
    /\ cur.t.s = hist[last.f].t.s + 13 * 3600

(***************************************************************************)
(* Files with an unsupported extension                                     *)
(***************************************************************************)
\* the files of the directory whose extension is in neither list
Unsupported == {f \in DOMAIN fs : Catalogue[f].name \in {Runes("notes.txt")}}

C30_OnePassPerFile ==
    /\ (last.op = "resolve" /\ pc = "rename") =>
          ~(hist[last.f].seen /\ hist[last.f].run = run)
    /\ pc \in {"rename", "enrich", "sync"} =>
          (queue # << >> /\ Head(queue) = cur.path)
    /\ (pc = "walk" /\ queue = << >> /\ env = MaxEnv) =>
          \A f \in DOMAIN fs :
             (fs[f].alive /\ f \notin Unsupported) => (hist[f].seen /\ hist[f].run = run)

\* C30 case: in the second run the file listed as VID_20230815_143005_[000].mkv
\* was renamed onto VID_20230815_143005_[001].mkv, which was listed and not
\* yet visited; the walk then reaches that name and processes the same file
\* again, and the file that was there is never processed
C30_RenamedFileVisitedAgain ==
    /\ run = 2 /\ last.op = "resolve" /\ pc = "rename"
    /\ last.from = Runes("VID_20230815_143005_[001].mkv")
    /\ hist[last.f].seen /\ hist[last.f].run = 2
    /\ hist[last.f].final = Runes("VID_20230815_143005_[001].mkv")
    /\ \E g \in lost : ~(hist[g].run = 2)

====
